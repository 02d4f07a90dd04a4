----------------------------- MODULE MCRunStore -----------------------------
(* Instances of RunStore for TLC.                                           *)
EXTENDS RunStore, TLC

WriterSymmetry == Permutations(Writers)

OneUpdate == {[status |-> "FINISHED", end |-> 1]}

SomeOld == CHOOSE r \in OldRuns : TRUE
KeyBatches == {<< <<"k", v>> >> : v \in Vals}
ParentBatches == {<< <<ParentKey, r>> >> : r \in Runs} \cup
                 {<< <<ParentKey, SomeOld>>, <<ParentKey, NoRun>> >>}
MixedBatches == KeyBatches \cup {<< <<ParentKey, SomeOld>>, <<"k", "v1">> >>}

=============================================================================
