------------------------ MODULE IdentityCorrections -------------------------
(***************************************************************************)
(* The append-only log of human identity decisions                         *)
(* (execution/ai2c/corrections.py).  The sequence number of an entry is its*)
(* place in the log; the reviewer, the time and the reason of an entry, and*)
(* the pinned checksum, are left out.                                      *)
(***************************************************************************)
EXTENDS Naturals, Sequences, FiniteSets

CONSTANT Tracklets   \* the tracklets of AI1, in the order of their ids

ASSUME TrackletsAssumption == Tracklets \subseteq Nat

Actions == {"must_link", "cannot_link", "exclude", "revoke"}

Pairs(tracklets) == {p \in SUBSET tracklets : Cardinality(p) = 2}

Entries == [action : Actions, tracklets : SUBSET Tracklets, revokes : Nat]

\* The entries that may stand at one place of a log.  A revoke names an earlier
\* sequence and no tracklet, every other entry names tracklets.
IsEntry(entry, sequence) ==
    /\ entry.action \in {"must_link", "cannot_link"} => entry.tracklets \in Pairs(Tracklets)
    /\ entry.action = "exclude" => entry.tracklets # {}
    /\ entry.action = "revoke" => entry.tracklets = {} /\ entry.revokes \in 1..(sequence - 1)
    /\ entry.action # "revoke" => entry.revokes = 0

Revokes(log) == {i \in DOMAIN log : log[i].action = "revoke"}

Revoked(log) == {log[i].revokes : i \in Revokes(log)}

\* No revocation is revoked, and nothing is revoked twice.
RevocationsAreLegal(log) ==
    /\ Revoked(log) \intersect Revokes(log) = {}
    /\ \A i, j \in Revokes(log) : log[i].revokes = log[j].revokes => i = j

(***************************************************************************)
(* The effective decisions                                                 *)
(***************************************************************************)

Live(log, action) ==
    {i \in DOMAIN log \ Revoked(log) : log[i].action = action}

Decided(log, action) == {log[i].tracklets : i \in Live(log, action)}

HumanExcluded(log) == UNION Decided(log, "exclude")

\* The entry an exclusion cites: the first live one that names the tracklet.
ExcludedBy(log, t) ==
    CHOOSE i \in Live(log, "exclude") :
        /\ t \in log[i].tracklets
        /\ \A j \in Live(log, "exclude") : t \in log[j].tracklets => i <= j

EffectiveIsConsistent(log) ==
    /\ Decided(log, "must_link") \intersect Decided(log, "cannot_link") = {}
    /\ (UNION Decided(log, "must_link")) \intersect HumanExcluded(log) = {}

\* What loading a log checks; any other log is a ValueError.
IsCorrections(log) ==
    /\ \A i \in DOMAIN log : IsEntry(log[i], i)
    /\ RevocationsAreLegal(log)
    /\ EffectiveIsConsistent(log)
=============================================================================
