------------------------------- MODULE MCSync -------------------------------
(* Client programs for Sync: which threads call what, in which order.      *)
EXTENDS Sync

Three == {1, 2, 3}

(* Two threads contend for a mutex, one of them recursively; the second    *)
(* also unlocks a mutex it does not own.                                   *)
MutexPair ==
    << <<<<"lock", "m">>, <<"lock", "m">>, <<"unlock", "m">>, <<"unlock", "m">>,
         <<"lock", "m">>, <<"unlock", "m">>>>,
       <<<<"unlock", "m">>, <<"lock", "m">>, <<"unlock", "m">>,
         <<"lock", "m">>, <<"unlock", "m">>>>,
       <<>> >>

(* Three threads contend for one mutex. *)
MutexTrio == [t \in Three |-> <<<<"lock", "m">>, <<"unlock", "m">>>>]

(* The same, one of them recursively and the others twice. *)
MutexBusy ==
    << <<<<"lock", "m">>, <<"lock", "m">>, <<"unlock", "m">>, <<"unlock", "m">>>>,
       <<<<"lock", "m">>, <<"unlock", "m">>, <<"lock", "m">>, <<"unlock", "m">>>>,
       <<<<"lock", "m">>, <<"unlock", "m">>, <<"lock", "m">>, <<"unlock", "m">>>> >>

(* Posts nobody waits for leave credits that fill the table; waits for the *)
(* mutex then fail, and so do wakes.                                       *)
FullTable ==
    << <<<<"post", "s">>, <<"post", "r">>, <<"lock", "m">>, <<"unlock", "m">>>>,
       <<<<"lock", "m">>, <<"unlock", "m">>>>,
       <<<<"lock", "m">>, <<"unlock", "m">>>> >>

(* Two consumers and a producer over a mutex and a condition variable. *)
CondTrio ==
    << <<<<"lock", "m">>, <<"condwait", "c", "m">>, <<"unlock", "m">>>>,
       <<<<"lock", "m">>, <<"condwait", "c", "m">>, <<"unlock", "m">>>>,
       <<<<"lock", "m">>, <<"signal", "c">>, <<"set">>, <<"broadcast", "c">>,
         <<"unlock", "m">>>> >>

(* One consumer and one producer. *)
CondPair ==
    << <<<<"lock", "m">>, <<"condwait", "c", "m">>, <<"unlock", "m">>>>,
       <<<<"lock", "m">>, <<"set">>, <<"signal", "c">>, <<"unlock", "m">>>>,
       <<>> >>

(* A consumer, a thread that tries, and a poster, which also joins. *)
SemTrio ==
    << <<<<"semwait", "s">>, <<"semwait", "s">>>>,
       <<<<"trywait", "s">>, <<"post", "s">>>>,
       <<<<"post", "s">>, <<"post", "s">>, <<"join", 2>>>> >>

(* Two waiters and two posts. *)
SemWaitersTwo ==
    << <<<<"semwait", "s">>>>, <<<<"semwait", "s">>>>,
       <<<<"post", "s">>, <<"post", "s">>>> >>

AllPrograms == {MutexPair, MutexBusy, FullTable, CondTrio, SemTrio, SemWaitersTwo}
OnlyMutexTrio == {MutexTrio}
OnlyCondPair == {CondPair}
=============================================================================
