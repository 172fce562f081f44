-------------------------- MODULE TrackerCompaction -------------------------
(***************************************************************************)
(* compact_hash_table (src/src/stack/tracker/server.c) step by step, as    *)
(* the code walks its two indices round the table, to check the closed     *)
(* form TrackerTable gives of it on every table of InitSize slots.         *)
(***************************************************************************)
EXTENDS TrackerTable, Integers

VARIABLES
    hash_table, free_index, allocated_index,
    pc,      \* "find free slot", "find allocated slot" or "done"
    before   \* the table the call started from

loopVars == <<hash_table, free_index, allocated_index, pc, before>>

(* Any slots may be in use; Hashes are numbers, and the number of a slot
   serves as the hash of its entry, so that no two entries are alike. *)
Tables ==
    {[head |-> head, tail |-> tail, size |-> InitSize,
      entry |-> [i \in 0..(InitSize - 1) |->
                   IF i \in used THEN [hash |-> i, peers |-> <<>>] ELSE FreeEntry]] :
        head \in 0..(InitSize - 1), tail \in 0..(InitSize - 1),
        used \in SUBSET (0..(InitSize - 1))}

LoopInit ==
    /\ hash_table \in Tables
    /\ before = hash_table
    /\ free_index = hash_table.head - 1
    /\ allocated_index = 0
    /\ pc = "find free slot"

FindFree ==
    /\ pc = "find free slot"
    /\ \/ /\ free_index = hash_table.tail
          /\ pc' = "done"
          /\ UNCHANGED <<free_index, allocated_index>>
       \/ /\ free_index < 0
          /\ free_index' = hash_table.size - 1
          /\ UNCHANGED <<pc, allocated_index>>
       \/ /\ free_index \in Slots(hash_table) \ {hash_table.tail}
          /\ ~ InUse(hash_table, free_index)
          /\ pc' = "find allocated slot"
          /\ allocated_index' = free_index - 1
          /\ UNCHANGED free_index
       \/ /\ free_index \in Slots(hash_table) \ {hash_table.tail}
          /\ InUse(hash_table, free_index)
          /\ free_index' = free_index - 1
          /\ UNCHANGED <<pc, allocated_index>>
    /\ UNCHANGED <<hash_table, before>>

(* A slip: the slot an entry moves from keeps it. *)
FindAllocatedKeepingSource ==
    /\ pc = "find allocated slot"
    /\ \/ /\ allocated_index = hash_table.tail
          /\ pc' = "done"
          /\ UNCHANGED <<hash_table, free_index, allocated_index>>
       \/ /\ allocated_index < 0
          /\ allocated_index' = hash_table.size - 1
          /\ UNCHANGED <<hash_table, free_index, pc>>
       \/ /\ allocated_index \in Slots(hash_table) \ {hash_table.tail}
          /\ ~ InUse(hash_table, allocated_index)
          /\ allocated_index' = allocated_index - 1
          /\ UNCHANGED <<hash_table, free_index, pc>>
       \/ /\ allocated_index \in Slots(hash_table) \ {hash_table.tail}
          /\ InUse(hash_table, allocated_index)
          /\ hash_table' = [hash_table EXCEPT
                !.entry = [hash_table.entry EXCEPT
                             ![free_index] = hash_table.entry[allocated_index]]]
          /\ free_index' = free_index - 1
          /\ pc' = "find free slot"
          /\ UNCHANGED allocated_index
    /\ UNCHANGED before

(* A slip: the tail does not end the search. *)
FindAllocatedPastTail ==
    /\ pc = "find allocated slot"
    /\ \/ /\ allocated_index < 0
          /\ allocated_index' = hash_table.size - 1
          /\ UNCHANGED <<hash_table, free_index, pc>>
       \/ /\ allocated_index \in Slots(hash_table)
          /\ ~ InUse(hash_table, allocated_index)
          /\ allocated_index' = allocated_index - 1
          /\ UNCHANGED <<hash_table, free_index, pc>>
       \/ /\ allocated_index \in Slots(hash_table)
          /\ InUse(hash_table, allocated_index)
          /\ hash_table' = [hash_table EXCEPT
                !.entry = [hash_table.entry EXCEPT
                             ![free_index] = hash_table.entry[allocated_index],
                             ![allocated_index] = FreeEntry]]
          /\ free_index' = free_index - 1
          /\ pc' = "find free slot"
          /\ UNCHANGED allocated_index
    /\ UNCHANGED before

FindAllocated ==
    /\ pc = "find allocated slot"
    /\ \/ /\ allocated_index = hash_table.tail
          /\ pc' = "done"
          /\ UNCHANGED <<hash_table, free_index, allocated_index>>
       \/ /\ allocated_index < 0
          /\ allocated_index' = hash_table.size - 1
          /\ UNCHANGED <<hash_table, free_index, pc>>
       \/ /\ allocated_index \in Slots(hash_table) \ {hash_table.tail}
          /\ ~ InUse(hash_table, allocated_index)
          /\ allocated_index' = allocated_index - 1
          /\ UNCHANGED <<hash_table, free_index, pc>>
       \/ /\ allocated_index \in Slots(hash_table) \ {hash_table.tail}
          /\ InUse(hash_table, allocated_index)
          /\ hash_table' = [hash_table EXCEPT
                !.entry = [hash_table.entry EXCEPT
                             ![free_index] = hash_table.entry[allocated_index],
                             ![allocated_index] = FreeEntry]]
          /\ free_index' = free_index - 1
          /\ pc' = "find free slot"
          /\ UNCHANGED allocated_index
    /\ UNCHANGED before

Returned == pc = "done" /\ UNCHANGED loopVars

LoopNext == FindFree \/ FindAllocated \/ Returned

LoopSpec == LoopInit /\ [][LoopNext]_loopVars /\ WF_loopVars(FindFree \/ FindAllocated)

-----------------------------------------------------------------------------
(* When the call returns the entries in use have slid up to the head in
   their order: the closed form is what the loop computes, for a table that
   wraps or has its head on its tail as well. *)
LoopIsClosedForm == pc = "done" => hash_table = compact_hash_table(before)

(* The walk round the table meets the tail and the call returns. *)
CallReturns == <>(pc = "done")

=============================================================================
