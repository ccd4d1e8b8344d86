------------------------- MODULE MCProfileEvaluation -------------------------
(***************************************************************************)
(* An instance of ProfileEvaluation for TLC: two profiles, a group and a   *)
(* private chat, two keywords, and definitions that meet at a boundary.    *)
(* "plain" is met exactly by a word its file has under "project";          *)
(* "strict" wants forwarded messages, has no min_score and listens to one  *)
(* user; "shared" needs what another profile brings; "topical" and         *)
(* "retrained" are interests.                                              *)
(***************************************************************************)
EXTENDS ProfileEvaluation, TLC

CONSTANTS a, b, g, u, x, y, w, v, s1, s2

Blank == [enabled |-> TRUE, channels |-> {}, users |-> {}, samples |-> NoSamples,
          keywords |-> {}, switches |-> {}, excluded |-> {}, vip |-> {},
          minScore |-> 12, threshold |-> 5, asks |-> [n \in Count |-> 0]]

Plain     == [Blank EXCEPT !.keywords = {<<"project", w>>, <<"technical", v>>},
                           !.minScore = 9]
Disabled  == [Plain EXCEPT !.enabled = FALSE]
Strict    == [Blank EXCEPT !.keywords = {<<"decision", w>>}, !.minScore = Absent,
                           !.switches = {"require_forwarded", "private"}, !.users = {u}]
Shared    == [Blank EXCEPT !.keywords = {<<"action", v>>}, !.minScore = 20,
                           !.asks = [reactions |-> 2, replies |-> 0]]
Topical   == [Blank EXCEPT !.samples = s1, !.excluded = {x}, !.vip = {y}]
Retrained == [Blank EXCEPT !.samples = s2, !.channels = {g}]

MCDefinition == {Plain, Disabled, Strict, Shared, Topical, Retrained}

MCMessage == {
    [chat |-> g, sender |-> x, words |-> {w}, marks |-> {},
     counts |-> [reactions |-> 0, replies |-> 0], topic |-> "near"],
    [chat |-> g, sender |-> y, words |-> {w, v}, marks |-> {"forwarded"},
     counts |-> [reactions |-> 2, replies |-> 1], topic |-> "far"],
    [chat |-> u, sender |-> u, words |-> {v}, marks |-> {"mentioned", "question"},
     counts |-> [reactions |-> 0, replies |-> 0], topic |-> Absent]}

MCTopic == {"near", "far"}

MCRule == [c \in {g, u} |->
    IF c = g THEN [id |-> g, profiles |-> {a}, extra |-> {}, vip |-> {}, excluded |-> {}]
             ELSE NoRule]

MCLikeness == [t \in MCTopic \X {s1, s2} |->
    IF t = <<"near", s1>> THEN 5 ELSE IF t = <<"far", s2>> THEN 7 ELSE 3]

\* A backtest leaves nothing behind but its report, which speaks of rows that
\* never change again: what follows one is followed without it.
MCReportIsLast == report = NoReport \/ "sample" \in DOMAIN report
=============================================================================
