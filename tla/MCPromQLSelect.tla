--------------------------- MODULE MCPromQLSelect ---------------------------
EXTENDS PromQLSelect

(* Characters in byte order: '-' 45, '.' 46, '1' 49, '_' 95, then letters. *)
MCCharOrder == <<"-", ".", "1", "_", "a", "b", "c", "i", "j">>
MCWordChars == {"1", "_", "a", "b", "c", "i", "j"}
MCLeadChars == {"_", "a", "b", "c", "i", "j"}

I == <<"i">>
J == <<"j">>
A == <<"a">>
B == <<"b">>
C == <<"c">>
DotC == <<".", "c">>
UC == <<"_", "c">>

NoGauge == [k \in {} |-> 0]

Env(ts, kind, name, total, gauge, start, stop, tags) ==
  [ts |-> ts, kind |-> kind, name |-> name, total |-> total, gauge |-> gauge,
   start |-> start, stop |-> stop, tags |-> tags]

(* Two counters of one series, a gauge whose names ".c" and "_c" both     *)
(* sanitize to "_c", a timer and a counter named ".c", under three tag    *)
(* sets.                                                                  *)
MCEnvelopes ==
  { Env(1, "counter", C, 5, NoGauge, 0, 0, J :> A),
    Env(2, "gauge", <<>>, 0, (C :> 3) @@ (DotC :> 4) @@ (UC :> 6), 0, 0,
        (J :> A) @@ (I :> B)),
    Env(3, "timer", C, 0, NoGauge, 1, 3, J :> B),
    Env(4, "counter", DotC, 7, NoGauge, 0, 0, J :> A),
    Env(5, "counter", C, 8, NoGauge, 0, 0, J :> A) }

(* Tag values containing the separator of series ids. *)
MCDashEnvelopes ==
  { Env(1, "counter", C, 5, NoGauge, 0, 0, I :> <<"a", "-", "j", "-", "b">>),
    Env(2, "counter", C, 6, NoGauge, 0, 0, (I :> A) @@ (J :> B)) }

Matcher(n, v, t) == [name |-> n, value |-> v, type |-> t]

MCQueries ==
  [metric : {C, UC}, hasSourceId : BOOLEAN,
   matchers : SUBSET {Matcher(J, A, "="), Matcher(I, B, "=")},
   start : {2, 4}, end : {6}]

MCNotEqualQueries ==
  [metric : {C}, hasSourceId : {TRUE}, matchers : {{Matcher(J, A, "!=")}},
   start : {2}, end : {6}]
=============================================================================
