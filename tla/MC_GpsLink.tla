---- MODULE MC_GpsLink ----
(* In ASCII: a sentence with a position and one without.                   *)
EXTENDS GpsLink, TLC

MCXor(a, b) ==
  LET At(k) == 2 ^ k * ((a \div 2 ^ k + b \div 2 ^ k) % 2)
  IN At(0) + At(1) + At(2) + At(3) + At(4) + At(5) + At(6) + At(7)

WithPosition == <<71, 44, 44, 65, 44, 49, 50>>     \* G,,A,12
Without      == <<71, 44, 44, 86, 44>>             \* G,,V,
TwoBodies    == {WithPosition, Without}

AllButStars == Byte \ {Star}
====
