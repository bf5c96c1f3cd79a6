----------------------------- MODULE CardTable -----------------------------
(***************************************************************************)
(* The tables through which open finds a board: device[] of pt3_dtv.c and  *)
(* gCard[] of pxq3pe_dtv.c, while boards are added and removed.  Places     *)
(* count from 1.                                                           *)
(***************************************************************************)
EXTENDS Integers, FiniteSets, FiniteSetsExt

CONSTANTS Boards, Places, none   \* Places: MAX_PCI_DEVICE, PXQ3PE_MAXCARD

ASSUME TableAssumption == Places \in Nat \ {0} /\ none \notin Boards

VARIABLES
  owner,     \* the driver that has the table
  table,     \* the table
  life,      \* of a board: "out", "entered" (its probe goes on), "live", "freed"
  number,    \* card_number of pt3_dtv.c
  \* history, read by the properties only
  overflow,  \* boards that found the table full
  fallen,    \* boards whose probe failed after the entry
  removed    \* boards that were removed

ctVars == <<owner, table, life, number, overflow, fallen, removed>>

CtInit ==
  /\ owner \in {"pt3_dtv", "pxq3pe_dtv"}
  /\ table = [s \in 1 .. Places |-> none]
  /\ life = [b \in Boards |-> "out"] /\ number = [b \in Boards |-> 1]
  /\ overflow = {} /\ fallen = {} /\ removed = {}

FreeSlots == {s \in 1 .. Places : table[s] = none}

\* Mutant: the first slot, free or not.
FirstSlot == 1

FreeSlot == Min(FreeSlots)

Enter(b) ==
  /\ life[b] = "out" /\ FreeSlots # {}
  /\ table' = [table EXCEPT ![FreeSlot] = b]
  /\ number' = [number EXCEPT ![b] = FreeSlot]
  /\ life' = [life EXCEPT ![b] = "entered"]
  /\ UNCHANGED <<owner, overflow, fallen, removed>>

\* The table is full: pxq3pe_probe gives up, pt3_pci_init_one goes on with
\* the card_number of kzalloc.
EnterFull(b) ==
  /\ life[b] = "out" /\ FreeSlots = {}
  /\ life' = [life EXCEPT ![b] = IF owner = "pt3_dtv" THEN "entered" ELSE "freed"]
  /\ overflow' = overflow \union {b}
  /\ UNCHANGED <<owner, table, number, fallen, removed>>

ProbeDone(b) ==
  /\ life[b] = "entered"
  /\ life' = [life EXCEPT ![b] = "live"]
  /\ UNCHANGED <<owner, table, number, overflow, fallen, removed>>

WithoutBoard(b) == [s \in 1 .. Places |-> IF table[s] = b THEN none ELSE table[s]]

\* The error path of pt3_pci_init_one leaves the entry; the one of
\* pxq3pe_probe is the remover.
ProbeFailsLate(b) ==
  /\ life[b] = "entered"
  /\ life' = [life EXCEPT ![b] = "freed"] /\ fallen' = fallen \union {b}
  /\ table' = IF owner = "pt3_dtv" THEN table ELSE WithoutBoard(b)
  /\ UNCHANGED <<owner, number, overflow, removed>>

RemoveBoard(b) ==
  /\ life[b] = "live"
  /\ life' = [life EXCEPT ![b] = "freed"] /\ removed' = removed \union {b}
  /\ table' = IF owner = "pt3_dtv" THEN [table EXCEPT ![number[b]] = none] ELSE WithoutBoard(b)
  /\ UNCHANGED <<owner, number, overflow, fallen>>

\* What opening a device of the board meets: pt3_open ends at the first
\* hole, pxq3pe_open goes on.
Before(b) == {s \in 1 .. Places : \A t \in 1 .. s : table[t] # b}
Opens(b) ==
  IF \E s \in Before(b) : table[s] # none /\ life[table[s]] = "freed" THEN "freed"
  ELSE IF owner = "pt3_dtv" /\ \E s \in Before(b) : table[s] = none THEN "hole"
  ELSE IF Before(b) = 1 .. Places THEN "missing"
  ELSE "found"

CtNext == \E b \in Boards : Enter(b) \/ EnterFull(b) \/ ProbeDone(b) \/ ProbeFailsLate(b) \/ RemoveBoard(b)
CtSpec == CtInit /\ [][CtNext]_ctVars

-----------------------------------------------------------------------------
Listed(b) == \E s \in 1 .. Places : table[s] = b

\* Every board that lives can be opened, and open never reads a board that
\* is gone.  In pt3_dtv.c this is so until a board has been removed, a probe
\* has failed late, or there were more boards than slots; the entries that
\* are wrong are those of late failures, and the boards that are missing are
\* those beyond the table and those a board beyond it has pushed out.
TableTrue ==
  /\ owner = "pxq3pe_dtv" \/ removed \union fallen \union overflow = {} =>
       \A b \in Boards : life[b] = "live" => Opens(b) = "found"
  /\ \A s \in 1 .. Places : table[s] # none /\ life[table[s]] = "freed" => owner = "pt3_dtv" /\ table[s] \in fallen
  /\ \A b \in Boards : life[b] = "live" /\ ~Listed(b) => b \in overflow \/ overflow \intersect removed # {}
=============================================================================
