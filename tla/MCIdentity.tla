----------------------------- MODULE MCIdentity -----------------------------
(***************************************************************************)
(* Instances of IdentityResolver for TLC: four tracklets that may follow   *)
(* one another, in scenes that differ in one respect each.                 *)
(***************************************************************************)
EXTENDS IdentityResolver

MCTracklets == 1..4

\* Tracklet 3 follows 2, which follows 1; 4 overlaps 2.
Chain ==
    [kind |-> "tracklets", present |-> 1..4,
     start |-> <<1, 3, 5, 4>>, end |-> <<2, 4, 6, 4>>,
     class |-> <<"person", "person", "person", "person">>,
     team |-> <<None, None, None, None>>, cannot |-> {},
     cost |-> [p \in (1..4) \X (1..4) |-> IF p[2] = 4 THEN 3 ELSE p[2]]]

Classed(classes) == [Chain EXCEPT !.class = classes]

MCScenes ==
    {Chain,
     \* Evidence: the ends of the chain are apart; two teams.
     [Chain EXCEPT !.cannot = {{1, 3}}],
     [Chain EXCEPT !.team = <<"A", None, "B", "B">>],
     \* Classes: eligible and unequal, ineligible, not recorded.
     Classed(<<"person", None, "keeper", "person">>),
     Classed(<<"person", "ball", "person", "person">>),
     [Chain EXCEPT !.kind = "review_samples", !.class = <<None, None, None, None>>],
     [Chain EXCEPT !.kind = "legacy", !.class = <<None, None, None, None>>],
     \* A clear choice, an equal one and one that the gates make.
     [Chain EXCEPT !.cost = [p \in (1..4) \X (1..4) |-> IF p = <<1, 4>> THEN 9 ELSE 1]],
     [Chain EXCEPT !.cost = [p \in (1..4) \X (1..4) |-> IF p[2] = 4 THEN Gated ELSE 0]],
     [Chain EXCEPT !.cost = [p \in (1..4) \X (1..4) |->
                                CASE p = <<1, 3>> -> 0 [] p = <<1, 2>> -> 5
                                  [] p[2] = 4 -> Gated [] OTHER -> 3]],
     \* Cuts at 3 and at 5; three in sequence; a lower id that comes later.
     [Chain EXCEPT !.start[4] = 3],
     [Chain EXCEPT !.start[4] = 5, !.end[4] = 6],
     [Chain EXCEPT !.start[4] = 7, !.end[4] = 8],
     [Chain EXCEPT !.start = <<5, 3, 1, 4>>, !.end = <<6, 4, 2, 4>>],
     \* A tracklet that the log may name is absent.
     [Chain EXCEPT !.present = 1..3, !.start = <<1, 3, 5>>, !.end = <<2, 4, 6>>,
                   !.class = <<"person", "person", "person">>,
                   !.team = <<"A", "B", None>>,
                   !.cost = [p \in (1..3) \X (1..3) |-> 1]]}

Named == {{1, 2}, {2, 3}, {1, 3}, {3, 4}}

MCDrafts ==
    [action : {"must_link", "cannot_link"}, tracklets : Named, revokes : {0}]
    \union [action : {"exclude"}, tracklets : {{3}, {1, 3}}, revokes : {0}]
    \union [action : {"revoke"}, tracklets : {{}}, revokes : 1..MaxLog]

WithLog == [mode |-> "review_only", corrections |-> TRUE, cited |-> 1, known |-> TRUE,
            digest |-> TRUE, pinned |-> TRUE]

MCRequests ==
    {[WithLog EXCEPT !.mode = m] : m \in Modes}
    \union {[WithLog EXCEPT !.mode = m, !.corrections = FALSE, !.cited = 0] : m \in Modes}
    \union {[WithLog EXCEPT !.cited = 0], [WithLog EXCEPT !.cited = 2],
            [WithLog EXCEPT !.corrections = FALSE], [WithLog EXCEPT !.known = FALSE],
            [WithLog EXCEPT !.digest = FALSE], [WithLog EXCEPT !.pinned = FALSE]}

(***************************************************************************)
(* Ground truths                                                           *)
(***************************************************************************)

Sure(player, team) == [player |-> player, team |-> team, role |-> "player", status |-> "confirmed"]
Unsure(player, team) == [Sure(player, team) EXCEPT !.status = "uncertain"]
Official == [player |-> None, team |-> None, role |-> "official", status |-> "unknown"]

MCPlayers == {"P", "Q"}

MCTruths ==
    {<<Sure("P", "A"), Sure("P", "A"), Sure("P", "A"), Sure("Q", "B")>>,
     <<Sure("P", "A"), Sure("Q", "A"), Sure("P", "A")>>,
     <<Sure("P", "A"), Official, Unsure("Q", "B"), Sure("Q", "B")>>}

MCScopes == {None, {"P"}, {"P", "Q"}}
=============================================================================
