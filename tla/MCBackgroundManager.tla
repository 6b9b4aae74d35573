------------------------ MODULE MCBackgroundManager -------------------------
(***************************************************************************)
(* The background manager for TLC: two agents of one provider, or one.     *)
(***************************************************************************)
EXTENDS BackgroundManagerProperties, TLC

CONSTANTS t1, t2, t3, t4, k1, k2, s1, p1

\* Launches t1 to t3 are of agent k1, t4 is of k2 when there is a k2.
MCFour      == {t1, t2, t3, t4}
MCTwo       == {t1, t2}
MCSession   == {s1}
MCParentOf  == [t \in Tasks |-> s1]
MCTwoKeys   == {k1, k2}
MCOneKey    == {k1}
MCKeyOf     == [t \in Tasks |-> IF t = t4 THEN k2 ELSE k1]
MCProvider  == [k \in Keys |-> p1]

\* k2 is unlimited by its model; k1 is limited by its provider or the default.
MCOnlyK2Model   == k2 :> 0
MCProviderTwo   == p1 :> 2
MCNoLimits      == [k \in {} |-> 0]

MCNoQueueLimit  == {}
MCQueueOfTwo    == {2}

MCFinish        == {"Completed"}
MCReaders       == {"clear"}
MCRemove        == {"remove"}
MCNoCalls       == {}
=============================================================================
