-------------------------- MODULE CallbackAggregator --------------------------
(***************************************************************************)
(* lib/util/callbackAggregator.js: one final callback for several parallel *)
(* calls.  It runs when every registered callback has been called, or at   *)
(* the first one that is given an error.  An aggregator is a record; the   *)
(* arguments a callback was given stay with the module that uses it.       *)
(***************************************************************************)
EXTENDS Integers, FiniteSets

\* Aggregators over a set of keys.
Aggregators(Keys) ==
  [registered : SUBSET Keys, finished : SUBSET Keys,
   isErrorState : BOOLEAN, done : BOOLEAN]

\* callbackAndAggregator()
NewAggregator ==
  [registered |-> {}, finished |-> {}, isErrorState |-> FALSE, done |-> FALSE]

\* getCallback(key): it returns null, and registers nothing, once the
\* aggregator is done or the key has finished.
GetCallback(agg, key) ==
  IF agg.done \/ key \in agg.finished
  THEN agg
  ELSE [agg EXCEPT !.registered = @ \cup {key}]

\* isFinished() compares the numbers of keys, not the keys.
IsFinished(agg) == Cardinality(agg.registered) = Cardinality(agg.finished)

\* isInProgressFor(key)
IsInProgressFor(agg, key) == key \in agg.registered \ agg.finished

Finish(agg, key) == [agg EXCEPT !.finished = @ \cup {key}]

\* Mutation: the final callback does not wait for the other keys.
CallsFinal_EachTime(agg, key, error) == ~agg.isErrorState

\* Mutation: the final callback waits for every key, in spite of an error.
CallsFinal_WhenAllDone(agg, key, error) ==
  ~agg.isErrorState /\ ~error /\ IsFinished(Finish(agg, key))

\* The callback of key is called; error says whether it is given one.
CallsFinal(agg, key, error) ==
  ~agg.isErrorState /\ (error \/ IsFinished(Finish(agg, key)))

Call(agg, key, error) ==
  [Finish(agg, key) EXCEPT
     !.isErrorState = @ \/ error,
     !.done = @ \/ CallsFinal(agg, key, error)]

===============================================================================
