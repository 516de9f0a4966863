-------------------------------- MODULE WinLists -------------------------------
(***************************************************************************)
(* The lists the Windows layer gives to the core: LIST_ENTRY rings linked  *)
(* through their entries, whose operations take no lock, and singly linked *)
(* lists, which are the kernel's own rings behind a spinlock.  list is     *)
(* what each ring should hold; ret is what the last call returned and      *)
(* right what it should have returned.                                     *)
(***************************************************************************)
EXTENDS Naturals, Sequences, SequencesExt

CONSTANTS
  Heads,        (* heads of LIST_ENTRY rings                                 *)
  SHeads,       (* heads of interlocked, singly linked lists                 *)
  Entries,      (* what can be on either                                     *)
  NoEntry,      (* NULL                                                      *)
  Poison        (* what the kernel's list_del leaves in the links            *)

ASSUME ListAssumption ==
  /\ Heads \cap SHeads = {} /\ (Heads \cup SHeads) \cap Entries = {}
  /\ {NoEntry, Poison} \cap (Heads \cup SHeads \cup Entries) = {} /\ NoEntry # Poison

VARIABLES
  Flink, Blink, (* the two links of every head and entry                     *)
  list,
  ret, right

listVars == <<Flink, Blink, list, ret, right>>

Anchor == Heads \cup SHeads
Cell   == Anchor \cup Entries

-------------------------------------------------------------------------------
(* The ring of a head, from the head round to the head. *)
Ring(h, s) == <<h>> \o s \o <<h>>

(* InitializeListHead and ExInitializeSListHead. *)
InitializeListHead == [c \in Cell |-> IF c \in Anchor THEN c ELSE NoEntry]

ListInit ==
  /\ Flink = InitializeListHead /\ Blink = InitializeListHead
  /\ list = [h \in Anchor |-> <<>>]
  /\ ret = NoEntry /\ right = NoEntry

IsListEmpty(h) == Flink[h] = h

On(e, h) == Contains(list[h], e)
Listed(e) == \E h \in Anchor : On(e, h)
Returns(value, expected) == ret' = value /\ right' = expected

(* Entries go between two neighbours and come out from between them. *)
Between(e, b, f) ==
  /\ Flink' = [Flink EXCEPT ![e] = f, ![b] = e]
  /\ Blink' = [Blink EXCEPT ![e] = b, ![f] = e]

InsertTailList(h, e) ==
  /\ ~Listed(e)
  /\ Between(e, Blink[h], h)
  /\ list' = [list EXCEPT ![h] = Append(@, e)]
  /\ UNCHANGED <<ret, right>>

InsertHeadList(h, e) ==
  /\ ~Listed(e)
  /\ Between(e, h, Flink[h])
  /\ list' = [list EXCEPT ![h] = <<e>> \o @]
  /\ UNCHANGED <<ret, right>>

(* Mutant: only the forward link is mended. *)
Unlinked_OneWay(e, mark) ==
  /\ Flink' = [Flink EXCEPT ![Blink[e]] = Flink[e], ![e] = mark]
  /\ Blink' = [Blink EXCEPT ![e] = mark]

Unlinked(e, mark) ==
  /\ Flink' = [Flink EXCEPT ![Blink[e]] = Flink[e], ![e] = mark]
  /\ Blink' = [Blink EXCEPT ![Flink[e]] = Blink[e], ![e] = mark]

(* RemoveEntryList of an entry of a ring, or of one taken from a ring by it *)
(* before, and its verdict on whether the ring is empty now.               *)
RemoveEntryList(e) ==
  \E h \in Heads : \E i \in DOMAIN list[h] :
    /\ list[h][i] = e
    /\ Unlinked(e, NoEntry)
    /\ list' = [list EXCEPT ![h] = RemoveAt(@, i)]
    /\ Returns(Flink[e] = Blink[e], list'[h] = <<>>)

RemoveCleared(e) ==
  /\ Flink[e] = NoEntry \/ Blink[e] = NoEntry
  /\ Returns(TRUE, TRUE)
  /\ UNCHANGED <<Flink, Blink, list>>

(* The entry keeps its links; of an empty ring the head comes out. *)
RemoveHeadList(h) ==
  LET f == Flink[h] IN
  /\ Flink' = [Flink EXCEPT ![h] = Flink[f]]
  /\ Blink' = [Blink EXCEPT ![Flink[f]] = h]
  /\ list' = [list EXCEPT ![h] = IF @ = <<>> THEN @ ELSE Tail(@)]
  /\ Returns(f, IF list[h] = <<>> THEN h ELSE Head(list[h]))

RemoveTailList(h) ==
  LET tail == Blink[h] IN
  /\ Blink' = [Blink EXCEPT ![h] = Blink[tail]]
  /\ Flink' = [Flink EXCEPT ![Blink[tail]] = h]
  /\ list' = [list EXCEPT ![h] = IF @ = <<>> THEN @ ELSE Front(@)]
  /\ Returns(tail, IF list[h] = <<>> THEN h ELSE Last(list[h]))

-------------------------------------------------------------------------------
(* The interlocked lists: one spinlock for push and pop, taken by the core. *)

ExInterlockedPushEntrySList(h, e) ==
  /\ ~Listed(e)
  /\ Between(e, h, Flink[h])
  /\ list' = [list EXCEPT ![h] = <<e>> \o @]
  /\ Returns(NoEntry, NoEntry)

ExInterlockedPopEntrySList(h) ==
  IF IsListEmpty(h)
  THEN Returns(NoEntry, NoEntry) /\ UNCHANGED <<Flink, Blink, list>>
  ELSE /\ Unlinked(Flink[h], Poison)
       /\ list' = [list EXCEPT ![h] = Tail(@)]
       /\ Returns(Flink[h], Head(list[h]))

(* Everything comes off, and the entries are lost to the caller.  The lock *)
(* is another than that of push and pop: the core must not flush a list    *)
(* that is in use.                                                         *)
ExInterlockedFlushSList(h) ==
  LET gone == {e \in Entries : On(e, h)} IN
  /\ Flink' = [c \in Cell |-> IF c = h THEN h ELSE IF c \in gone THEN Poison ELSE Flink[c]]
  /\ Blink' = [c \in Cell |-> IF c = h THEN h ELSE IF c \in gone THEN Poison ELSE Blink[c]]
  /\ list' = [list EXCEPT ![h] = <<>>]
  /\ Returns(NoEntry, NoEntry)

ListNext ==
  \/ \E h \in Heads, e \in Entries : InsertTailList(h, e) \/ InsertHeadList(h, e)
  \/ \E e \in Entries : RemoveEntryList(e) \/ RemoveCleared(e)
  \/ \E h \in Heads : RemoveHeadList(h) \/ RemoveTailList(h)
  \/ \E h \in SHeads, e \in Entries : ExInterlockedPushEntrySList(h, e)
  \/ \E h \in SHeads : ExInterlockedPopEntrySList(h) \/ ExInterlockedFlushSList(h)

ListSpec == ListInit /\ [][ListNext]_listVars

-------------------------------------------------------------------------------
(* From every head the links lead, one way and the other, through exactly  *)
(* the entries that were put on its ring and not taken off, in their order, *)
(* and back to the head; every call returned what it promises: the entry   *)
(* taken off, or whether the ring is empty now.                            *)
ListsMatch ==
  /\ \A h \in Anchor : LET n == Ring(h, list[h]) IN
       \A i \in 1 .. Len(list[h]) + 1 :
         Flink[n[i]] = n[i + 1] /\ Blink[n[i + 1]] = n[i]
  /\ ret = right
===============================================================================
