---------------------------- MODULE UnitFactors ----------------------------
(***************************************************************************)
(* The tables of factors in calc_conversion.c, to the last of their 34     *)
(* digits, and what the units are by their definitions, against which the  *)
(* tables are checked.                                                     *)
(*                                                                         *)
(* A decimal is a sequence of groups of four digits, the highest first,    *)
(* and the place of the last; the place of the units is 0.                 *)
(***************************************************************************)
EXTENDS Integers, Sequences

D(groups, low) == [groups |-> groups, low |-> low]

D0 == D(<<0>>, 0)
D1 == D(<<1>>, 0)

-----------------------------------------------------------------------------
(* calc_conversion.c: units per base unit *)

length_name_val == <<
  D(<<1000>>, 0),                                                \* mm
  D(<<100>>, 0),                                                 \* cm
  D(<<1>>, 0),                                                   \* m
  D(<<10>>, -1),                                                 \* km
  D(<<3,9370,0787,4015,7480,3149,6062,9921,2598,4000>>, -8),     \* thou
  D(<<39,3700,7874,0157,4803,1496,0629,9212,5984>>, -8),         \* inch
  D(<<3,2808,3989,5013,1233,5958,0052,4934,3832>>, -8),          \* foot
  D(<<1,0936,1329,8337,7077,8652,6684,1644,7944>>, -8),          \* yard
  D(<<6,2137,1192,2373,3396,9617,4341,8436,3318,2000>>, -10),    \* mile
  D(<<5,3995,6803,4557,2354,2116,6306,6954,6436,3000>>, -10)     \* nautical mile
  >>

area_name_val == <<
  D(<<100>>, 1),                                                 \* sq mm
  D(<<1>>, 1),                                                   \* sq cm
  D(<<1>>, 0),                                                   \* sq m
  D(<<1>>, -1),                                                  \* hectare
  D(<<100>>, -2),                                                \* sq km
  D(<<1550,0031,0000,6200,0124,0002,4800,0496>>, -7),            \* sq inch
  D(<<10,7639,1041,6709,7223,0833,3505,5559>>, -7),              \* sq foot
  D(<<1,1959,9004,6301,0802,5648,1500,6173,2222,2000>>, -9),     \* sq yard
  D(<<2,4710,5381,4671,6534,2248,2439,2919,8806,2000>>, -10),    \* acre
  D(<<38,6102,1585,4244,5847,2628,8113,9373,1348>>, -10)         \* sq mile
  >>

volume_name_val == <<
  D(<<100>>, 1),                                                 \* ml (cc)
  D(<<1000>>, 0),                                                \* litre
  D(<<1>>, 0),                                                   \* cu m
  D(<<6,1023,7440,9473,2283,9527,5688,1891,7165,4000>>, -8),     \* cu inch
  D(<<35,3146,6672,1488,5902,5043,8010,3540,0263>>, -8),         \* cu foot
  D(<<1,3079,5061,9314,3922,3149,7704,0871,8528,2000>>, -9),     \* cu yard
  D(<<3,5195,0797,2785,4046,0043,6858,9271,2198,8000>>, -8),     \* fl oz (imp)
  D(<<1759,7539,8639,2702,3002,1842,9463,5609,9400>>, -8),       \* pint (imp)
  D(<<219,9692,4829,9087,7875,2730,3682,9451,2420>>, -8),        \* gallon (imp)
  D(<<3,3814,0227,0184,2997,1686,2718,9965,9728>>, -7),          \* fl oz (US)
  D(<<2113,3764,1886,5187,3230,3919,9372,8733>>, -7),            \* pint (US)
  D(<<264,1720,5235,8148,4153,7989,9921,6091,6250>>, -8)         \* gallon (US)
  >>

mass_name_val == <<
  D(<<1000>>, 0),                                                \* g
  D(<<1>>, 0),                                                   \* kg
  D(<<10>>, -1),                                                 \* tonne
  D(<<35,2739,6194,9580,4129,1567,5808,2152,0433>>, -8),         \* ounce
  D(<<2,2046,2262,1848,7758,0722,9738,0134,5027,1000>>, -9),     \* pound
  D(<<1574,7304,4417,7697,0051,6409,8581,0359,0800>>, -9),       \* stone
  D(<<196,8413,0552,2212,1256,4551,2322,6294,8840>>, -9),        \* cwt (imp)
  D(<<9,8420,6527,6110,6062,8227,5616,1314,7442,2000>>, -10),    \* ton (imp)
  D(<<220,4622,6218,4877,5807,2297,3801,3450,2710>>, -9),        \* cwt (US)
  D(<<11,0231,1310,9243,8790,3614,8690,0672,5135>>, -9)          \* ton (US)
  >>

speed_name_val == <<
  D(<<1>>, 0),                                                   \* m/s
  D(<<3,6000>>, -1),                                             \* km/h
  D(<<3,2808,3989,5013,1233,5958,0052,4934,3832>>, -8),          \* ft/s
  D(<<2,2369,3629,2054,4022,9062,2763,0637,0794,5000>>, -9),     \* mile/h
  D(<<1,9438,4449,2440,6047,5161,9870,4103,6717,1000>>, -9)      \* knot
  >>

pressure_name_val == <<
  D(<<1>>, 0),                                                   \* Pa
  D(<<100>>, -1),                                                \* mbar
  D(<<1000>>, -2),                                               \* bar
  D(<<986,9232,6671,6012,8300,0246,7308,1667,9000>>, -10),       \* atm
  D(<<1,4503,7737,7302,0921,5154,2410,2795,1194>>, -9)           \* psi
  >>

force_name_val == <<
  D(<<1>>, 0),                                                   \* N
  D(<<1019,7162,1297,7928,2425,7009,2743,1895,7000>>, -9),       \* kgf
  D(<<2248,0894,3099,7104,8291,0039,4134,0317,7500>>, -9)        \* lbf
  >>

\* Mutant of energy_name_val: the point of keV is not moved.
energy_name_val_Point == <<
  D(<<624,1509,1258,8325,7926,5158,6293,8249,1610>>, -4),        \* eV
  D(<<624,1509,1258,8325,7926,5158,6293,8249,1610>>, -4),        \* keV
  D(<<6,2415,0912,5883,2579,2651,5862,9382,4916,1000>>, -6),     \* MeV
  D(<<1>>, 0),                                                   \* J
  D(<<10>>, -1),                                                 \* kJ
  D(<<27,7777,7777,7777,7777,7777,7777,7777,7778>>, -10),        \* kWh
  D(<<2388,4589,6627,4959,3961,9757,3325,6902,6500>>, -9),       \* cal
  D(<<2,3884,5896,6274,9593,9619,7573,3256,9026,5000>>, -10),    \* kcal
  D(<<9,4781,7120,3133,1720,0012,7850,4447,5610,6000>>, -10)     \* BTU
  >>

energy_name_val == <<
  D(<<624,1509,1258,8325,7926,5158,6293,8249,1610>>, -4),        \* eV
  D(<<6241,5091,2588,3257,9265,1586,2938,2491,6100>>, -5),       \* keV
  D(<<6,2415,0912,5883,2579,2651,5862,9382,4916,1000>>, -6),     \* MeV
  D(<<1>>, 0),                                                   \* J
  D(<<10>>, -1),                                                 \* kJ
  D(<<27,7777,7777,7777,7777,7777,7777,7777,7778>>, -10),        \* kWh
  D(<<2388,4589,6627,4959,3961,9757,3325,6902,6500>>, -9),       \* cal
  D(<<2,3884,5896,6274,9593,9619,7573,3256,9026,5000>>, -10),    \* kcal
  D(<<9,4781,7120,3133,1720,0012,7850,4447,5610,6000>>, -10)     \* BTU
  >>

power_name_val == <<
  D(<<1>>, 0),                                                   \* W
  D(<<10>>, -1),                                                 \* kW
  D(<<13,4102,2089,5950,2793,4323,7855,7267,4645>>, -9),         \* HP (imp)
  D(<<13,5962,1617,3039,0432,3426,7903,2425,2760>>, -9),         \* HP (metric)
  D(<<3,4121,4163,3127,9419,2004,6026,1601,1219,8000>>, -9)      \* BTU / hour
  >>

torque_name_val == <<
  D(<<1>>, 0),                                                   \* N.m
  D(<<10,1971,6212,9779,2824,2570,0927,4318,9570>>, -8),         \* kg.cm
  D(<<7375,6214,9277,2653,6387,8082,0649,7105,4900>>, -9)        \* lb.ft
  >>

FUEL_ECO_K_IMP == D(<<282,4809,3633,1822,1585,9381,2137,1192,2380>>, -8)
FUEL_ECO_K_US  == D(<<235,2145,8333,3333,3333,3333,3333,3333,3330>>, -8)

\* get_name_val, of the linear categories.
Factors ==
  [length   |-> length_name_val,   area   |-> area_name_val,   volume |-> volume_name_val,
   mass     |-> mass_name_val,     speed  |-> speed_name_val,  force  |-> force_name_val,
   pressure |-> pressure_name_val, energy |-> energy_name_val, power  |-> power_name_val,
   torque   |-> torque_name_val]

-----------------------------------------------------------------------------
(* Reference: products of decimals, and the sizes of the units by their definitions *)

Places(a) == a.low..a.low + Len(a.groups) - 1

Group(a, place) ==
  IF place \in Places(a) THEN a.groups[a.low + Len(a.groups) - place] ELSE 0

\* (An empty sequence is appended so that TLC computes columns and groups once.)
Times(a, b) ==
  LET low == a.low + b.low
      n   == Len(a.groups) + Len(b.groups)
      Column(place) ==
        LET sum[i \in a.low - 1..a.low + Len(a.groups) - 1] ==
              IF i < a.low THEN 0 ELSE sum[i - 1] + Group(a, i) * Group(b, place - i)
        IN  sum[a.low + Len(a.groups) - 1]
      column == [k \in 1..n |-> Column(low + k - 1)] \o <<>>
      carry[k \in 1..n] == IF k = 1 THEN 0 ELSE (column[k - 1] + carry[k - 1]) \div 10000
  IN  D([k \in 1..n |-> (column[n + 1 - k] + carry[n + 1 - k]) % 10000] \o <<>>, low)

AtMost(a, b) ==
  \A i \in Places(a) \cup Places(b) : Group(a, i) > Group(b, i) =>
    \E j \in Places(a) \cup Places(b) : j > i /\ Group(a, j) < Group(b, j)

\* Equal to a part in 10^33; a shipped factor has 34 digits, the last of them rounded.
Near(a, b) ==
  LET scaled == Times(a, D(<<10,0,0,0,0,0,0,0,0>>, 0))
  IN  /\ AtMost(scaled, Times(b, D(<<10,0,0,0,0,0,0,0,1>>, 0)))
      /\ AtMost(Times(b, D(<<9,9999,9999,9999,9999,9999,9999,9999,9999>>, 0)), scaled)

N(n) == D(<<n>>, 0)

Inch      == D(<<254>>, -1)                      \* m
Foot      == Times(N(12), Inch)
Yard      == Times(N(3), Foot)
Mile      == Times(N(1760), Yard)
SqInch    == Times(Inch, Inch)
SqYard    == Times(Yard, Yard)
Pint      == D(<<5,6826,1250>>, -3)              \* imperial, cubic metres
PintUS    == D(<<4,7317,6473>>, -3)
Ounce     == D(<<283,4952,3125>>, -3)            \* kg
Pound     == Times(N(16), Ounce)
Gravity   == D(<<9,8066,5000>>, -2)              \* m/s^2
FootPound == Times(Foot, Times(Pound, Gravity))
Calorie   == D(<<4,1868>>, -1)                   \* J
BTU       == D(<<1055,0558,5262>>, -2)
eV        == D(<<16,0217,6620,8000>>, -8)
Million   == D(<<100>>, 1)

\* How large the unit of each row is, in a measure of its category: SI units, but metres per
\* hour, newtons per square inch, joules per hour, and for fuel, of which the first row is
\* the inverse, metres times imperial and US gallons per cubic metre.
Sizes ==
  [length   |-> <<D(<<10>>, -1), D(<<100>>, -1), D1, N(1000), Times(D(<<10>>, -1), Inch),
                  Inch, Foot, Yard, Mile, N(1852)>>,
   area     |-> <<D(<<100>>, -2), D(<<1>>, -1), D1, D(<<1>>, 1), Million, SqInch,
                  Times(Foot, Foot), SqYard, Times(N(4840), SqYard), Times(Mile, Mile)>>,
   volume   |-> <<D(<<100>>, -2), D(<<10>>, -1), D1, Times(Inch, SqInch),
                  Times(Foot, Times(Foot, Foot)), Times(Yard, SqYard),
                  Times(D(<<500>>, -1), Pint), Pint, Times(N(8), Pint),
                  Times(D(<<625>>, -1), PintUS), PintUS, Times(N(8), PintUS)>>,
   mass     |-> <<D(<<10>>, -1), D1, N(1000), Ounce, Pound, Times(N(14), Pound),
                  Times(N(112), Pound), Times(N(2240), Pound), Times(N(100), Pound),
                  Times(N(2000), Pound)>>,
   speed    |-> <<N(3600), N(1000), Times(N(3600), Foot), Mile, N(1852)>>,
   pressure |-> <<SqInch, Times(N(100), SqInch), Times(D(<<10>>, 1), SqInch),
                  Times(D(<<10,1325>>, 0), SqInch), Times(Pound, Gravity)>>,
   force    |-> <<D1, Gravity, Times(Pound, Gravity)>>,
   energy   |-> <<eV, Times(N(1000), eV), Times(Million, eV), D1, N(1000), D(<<360>>, 1),
                  Calorie, Times(N(1000), Calorie), BTU>>,
   power    |-> <<N(3600), D(<<360>>, 1), Times(D(<<198>>, 1), FootPound),
                  Times(N(3600), D(<<735,4987,5000>>, -2)), BTU>>,
   torque   |-> <<D1, Times(D(<<100>>, -1), Gravity), FootPound>>,
   fuel_economy |->
     LET gallons == Times(Times(N(8), Pint), Times(N(8), PintUS))
     IN  <<Times(D(<<1>>, 2), gallons), Times(Mile, Times(N(8), PintUS)),
           Times(Mile, Times(N(8), Pint))>>]

Shipped(category) ==
  IF category = "fuel_economy" THEN <<D1, FUEL_ECO_K_IMP, FUEL_ECO_K_US>> ELSE Factors[category]

\* How many of each unit make one base unit, that with the factor 1: the shipped decimal, if
\* it is right, else none.
UnitsPerBase ==
  [category \in DOMAIN Sizes |->
     LET base == CHOOSE i \in DOMAIN Sizes[category] : Shipped(category)[i] = D1
     IN  [i \in DOMAIN Sizes[category] |->
            IF Near(Times(Shipped(category)[i], Sizes[category][i]), Sizes[category][base])
            THEN Shipped(category)[i] ELSE D0]]
=============================================================================
