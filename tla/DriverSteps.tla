---------------------------- MODULE DriverSteps ----------------------------
(***************************************************************************)
(* The language in which the life of a driver is written down: what its    *)
(* probe and its remove function take, use and give back, in the order of  *)
(* the code.  A step is a record; a function of the driver is a sequence   *)
(* of steps; alt is where the code goes when the step fails (the goto, the *)
(* call of the remover, the return), or what it does when it succeeds.     *)
(* A resource is a pair: its name and the adapter it belongs to, 0 for the *)
(* board.  A pointer and what it points to have one name.                  *)
(***************************************************************************)
EXTENDS Sequences, SequencesExt, Integers

CONSTANT Units   \* adapters of a board, tuners, channels

ASSUME StepsAssumption == Units \in Nat \ {0}

Step(do, r, alt) == [do |-> do, r |-> r, alt |-> alt]

Get(r, alt)  == Step("get", r, alt)       \* take r or go to alt
Must(r, alt) == Step("must", r, alt)      \* an operation that may fail: to alt
Need(r, alt) == Step("need", r, alt)      \* if (!r) goto alt
Try(r, then) == Step("try", r, then)      \* take r, and if it works: then
When(r, then) == Step("when", r, then)    \* if (r) then
Set(r)   == Step("set", r, <<>>)          \* cannot fail
Use(r)   == Step("use", r, <<>>)          \* go through the pointer r
Put(r)   == Step("put", r, <<>>)          \* give r back, the pointer stays
Clear(r) == Step("clear", r, <<>>)        \* the pointer is NULL
Fail     == Step("fail", <<"probe", 0>>, <<>>)   \* probe returns an error

Board(name) == <<name, 0>>
Null == <<"NULL", 0>>

\* One piece of a function for every adapter, upwards and downwards.
Each(piece(_)) == FlattenSeq([i \in 1 .. Units |-> piece(i)])
EachDown(piece(_)) == FlattenSeq([i \in 1 .. Units |-> piece(Units + 1 - i)])
Drop(r) == When(r, <<Put(r)>>)
=============================================================================
