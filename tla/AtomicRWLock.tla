----------------------------- MODULE AtomicRWLock -----------------------------
(***************************************************************************)
(* include/lwipc/atomic_rw_lock.hpp: a try-only readers-writer lock in one *)
(* unsigned word.  The top bit says that a writer holds the lock, the bits *)
(* below count the readers.  A holder is a ReadLockGuard or WriteLockGuard *)
(* object: it tries once when constructed, and gives back when destroyed   *)
(* what it got.  A thread that nests guards is several holders.            *)
(***************************************************************************)
EXTENDS Integers, FiniteSets

CONSTANTS Holders,
          WriteBit    \* WRITE_LOCK_BIT: 2^31 in the code

ASSUME WriteBitAssumption == WriteBit \in Nat \ {0}

\* The reader count must not reach the top bit: the code does not check that it doesn't.
ASSUME HoldersAssumption == IsFiniteSet(Holders) /\ Cardinality(Holders) < WriteBit

VARIABLES state,      \* the word
          pc,         \* of each guard: constructing, holding or gone
          current,    \* of each reader being constructed: what it last saw of the word
          refused     \* the guards whose try failed (owns_lock() is false)

vars == <<state, pc, current, refused>>

\* The values the word takes: a count of readers, or the writer bit alone.
Word == 0 .. WriteBit

TypeOK ==
    /\ state \in Word
    /\ pc \in [Holders -> {"idle", "cas", "reading", "writing"}]
    /\ current \in [Holders -> Word]
    /\ refused \subseteq Holders

Init ==
    /\ state = 0
    /\ pc = [h \in Holders |-> "idle"]
    /\ current = [h \in Holders |-> 0]
    /\ refused = {}

WriteLocked(w) == w >= WriteBit

Readers == {h \in Holders : pc[h] = "reading"}
Writers == {h \in Holders : pc[h] = "writing"}

Goto(h, step) == pc' = [pc EXCEPT ![h] = step]

-----------------------------------------------------------------------------
(* try_lock_read and unlock_read *)

\* The writer bit, as the first load or a failed CAS saw it, sends the reader away.
ReadSaw(h, w) ==
    IF WriteLocked(w)
    THEN /\ Goto(h, "idle")
         /\ current' = [current EXCEPT ![h] = 0]
         /\ refused' = refused \cup {h}
    ELSE /\ Goto(h, "cas")
         /\ current' = [current EXCEPT ![h] = w]
         /\ refused' = refused \ {h}

ReadLoad(h) ==
    /\ pc[h] = "idle"
    /\ ReadSaw(h, state)
    /\ UNCHANGED state

ReadCasWins(h) ==
    /\ pc[h] = "cas"
    /\ state = current[h]
    /\ state' = (state + 1) % (2 * WriteBit)
    /\ Goto(h, "reading")
    /\ current' = [current EXCEPT ![h] = 0]
    /\ UNCHANGED refused

\* compare_exchange_weak may fail although the word is the expected one.
ReadCasFails(h) ==
    /\ pc[h] = "cas"
    /\ ReadSaw(h, state)
    /\ UNCHANGED state

UnlockRead(h) ==
    /\ pc[h] = "reading"
    /\ state' = (state - 1) % (2 * WriteBit)
    /\ Goto(h, "idle")
    /\ UNCHANGED <<current, refused>>

-----------------------------------------------------------------------------
(* try_lock_write and unlock_write *)

\* Mutant: readers alone do not keep a writer out.
WriteFreeOfWriters(w) == ~WriteLocked(w)

WriteFree(w) == w = 0

\* compare_exchange_strong: it fails only on a word that is not zero.
WriteCasWins(h) ==
    /\ pc[h] = "idle"
    /\ WriteFree(state)
    /\ state' = WriteBit
    /\ Goto(h, "writing")
    /\ refused' = refused \ {h}
    /\ UNCHANGED current

WriteCasFails(h) ==
    /\ pc[h] = "idle"
    /\ ~WriteFree(state)
    /\ refused' = refused \cup {h}
    /\ UNCHANGED <<state, pc, current>>

UnlockWrite(h) ==
    /\ pc[h] = "writing"
    /\ state' = 0
    /\ Goto(h, "idle")
    /\ UNCHANGED <<current, refused>>

-----------------------------------------------------------------------------
Next ==
    \E h \in Holders :
        \/ ReadLoad(h) \/ ReadCasWins(h) \/ ReadCasFails(h) \/ UnlockRead(h)
        \/ WriteCasWins(h) \/ WriteCasFails(h) \/ UnlockWrite(h)

Spec == Init /\ [][Next]_vars

-----------------------------------------------------------------------------
(* Properties *)

\* While one guard holds the lock for writing nobody else holds it, and the
\* observers is_write_locked() and reader_count() tell who does.
Exclusion ==
    /\ Writers # {} => Readers = {} /\ Cardinality(Writers) = 1
    /\ WriteLocked(state) <=> Writers # {}
    /\ ~WriteLocked(state) => state = Cardinality(Readers)

\* A reader is refused only while a writer holds the lock (readers alone never
\* disturb each other, as the concurrent-readers test expects); a writer is
\* refused only while somebody holds it.
RefusalJustified ==
    \A h \in Holders :
        /\ ReadLoad(h) \/ ReadCasFails(h) => (h \in refused' \ refused => Writers # {})
        /\ WriteCasFails(h) => Writers # {} \/ Readers # {}
RefusedForAReason == [][RefusalJustified]_vars
=============================================================================
