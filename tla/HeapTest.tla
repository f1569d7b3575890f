------------------------------ MODULE HeapTest ------------------------------
(***************************************************************************)
(* The heaptest command (src/src/kernel/repl.c:296-410) as a client of the  *)
(* heap, with the other clients acting between commands: file buffers that  *)
(* a program left open, files being read, and the process's page tables.    *)
(* The command fills and verifies each buffer at once; nothing runs in      *)
(* between, so the verification is left out, and what the pattern looks     *)
(* like to the heap is ClientWrites of module Buddy.                        *)
(***************************************************************************)
EXTENDS Buddy

CONSTANTS
  SizesA,         \* the sizes of steps (a), (c) and (e), slots 1 to 9 together
  SizesC,
  SizeE,
  MinFree,        \* the free pages step (d2) requires, 100 in the code
  OtherRequests,  \* the sizes other clients ask for
  MaxOther        \* bound: blocks live when another client asks for one

SlotSize == SizesA \o SizesC \o <<SizeE>>

ASSUME HeapTestAssumption ==
  /\ SizesA \in Seq(Requests) /\ Len(SizesA) = 5
  /\ SizesC \in Seq(Requests) /\ Len(SizesC) = 3
  /\ \A s \in DOMAIN SlotSize : SlotSize[s] \in Requests \ {0}
  /\ \A s \in DOMAIN SlotSize : PagesFor(SlotSize[s]) <= Size[MaxOrder]
  /\ OtherRequests \subseteq Requests
  /\ MinFree \in Nat /\ MaxOther \in Nat

(* Mutant: step (d) forgets the second buffer it kept in step (b).          *)
ScriptForgets ==
  << <<"kmalloc", 1>>, <<"kmalloc", 2>>, <<"kmalloc", 3>>, <<"kmalloc", 4>>, <<"kmalloc", 5>>,
     <<"kfree", 1>>, <<"kfree", 3>>, <<"kfree", 5>>,
     <<"kmalloc", 6>>, <<"kmalloc", 7>>, <<"kmalloc", 8>>,
     <<"kfree", 2>>, <<"kfree", 6>>, <<"kfree", 7>>, <<"kfree", 8>>,
     <<"account", 0>>,
     <<"kmalloc", 9>>, <<"kfree", 9>> >>

(* Steps (a) to (e); the number is the slot of the buffer.                  *)
Script ==
  << <<"kmalloc", 1>>, <<"kmalloc", 2>>, <<"kmalloc", 3>>, <<"kmalloc", 4>>, <<"kmalloc", 5>>,
     <<"kfree", 1>>, <<"kfree", 3>>, <<"kfree", 5>>,
     <<"kmalloc", 6>>, <<"kmalloc", 7>>, <<"kmalloc", 8>>,
     <<"kfree", 2>>, <<"kfree", 4>>, <<"kfree", 6>>, <<"kfree", 7>>, <<"kfree", 8>>,
     <<"account", 0>>,
     <<"kmalloc", 9>>, <<"kfree", 9>> >>

VARIABLES
  step,      \* position in Script; 0: no heaptest is running
  bufs,      \* bufs_a, bufs_c and big: slot -> block
  before,    \* the blocks live when the command called kmalloc, else {}
  called,    \* the command waits for that kmalloc
  verdict,   \* of the last command: "OK", or FAIL because of "NULL" or
             \* "accounting"; "none" while it runs and after other commands
  repeated   \* history: the command before this heaptest was one, and OK

testVars == <<step, bufs, before, called, verdict, repeated>>
allVars == <<vars, testVars>>

TestInit ==
  /\ Init
  /\ step = 0 /\ bufs = <<>> /\ before = {} /\ called = FALSE
  /\ verdict = "none" /\ repeated = FALSE

Op == IF step \in DOMAIN Script THEN Script[step][1] ELSE "end"
Slot == Script[step][2]

Finish(v) ==
  /\ step' = 0 /\ bufs' = <<>> /\ before' = {} /\ called' = FALSE
  /\ verdict' = v
  /\ UNCHANGED repeated

cmd_heaptest ==
  /\ pc = "idle" /\ step = 0
  /\ step' = 1
  /\ bufs' = [s \in DOMAIN SlotSize |-> {}]
  /\ verdict' = "none" /\ repeated' = (verdict = "OK")
  /\ UNCHANGED <<vars, before, called>>

TestKmalloc ==
  /\ step # 0 /\ Op = "kmalloc" /\ ~called
  /\ kmalloc(SlotSize[Slot])
  /\ before' = live /\ called' = TRUE
  /\ UNCHANGED <<step, bufs, verdict, repeated>>

(* kmalloc has returned.  After NULL every later step is skipped: what the  *)
(* command holds is never freed.                                            *)
TestReturn ==
  /\ pc = "idle" /\ called
  /\ IF live = before
     THEN Finish("NULL")
     ELSE /\ bufs' = [bufs EXCEPT ![Slot] = live \ before]
          /\ step' = step + 1 /\ before' = {} /\ called' = FALSE
          /\ UNCHANGED <<verdict, repeated>>
  /\ UNCHANGED vars

TestKfree ==
  /\ Op = "kfree"
  /\ \E l \in bufs[Slot] : kfree(l)
  /\ step' = step + 1
  /\ UNCHANGED <<bufs, before, called, verdict, repeated>>

(* Mutant: only the free pages are looked at, not the blocks in use.        *)
TestAccountBlind ==
  /\ pc = "idle" /\ Op = "account"
  /\ IF FreePagesBelow[MaxOrder + 1] < MinFree
     THEN Finish("accounting")
     ELSE step' = step + 1 /\ UNCHANGED <<bufs, before, called, verdict, repeated>>
  /\ UNCHANGED vars

(* (d2), with what heap_stats reports.                                      *)
TestAccount ==
  /\ pc = "idle" /\ Op = "account"
  /\ IF allocated_blocks # 0 \/ FreePagesBelow[MaxOrder + 1] < MinFree
     THEN Finish("accounting")
     ELSE step' = step + 1 /\ UNCHANGED <<bufs, before, called, verdict, repeated>>
  /\ UNCHANGED vars

TestOK == pc = "idle" /\ step # 0 /\ Op = "end" /\ Finish("OK") /\ UNCHANGED vars

TestStep == TestKmalloc \/ TestReturn \/ TestKfree \/ TestAccount \/ TestOK

(* Commands other than heaptest.                                            *)
OtherClient ==
  /\ step = 0
  /\ verdict' = "none" /\ repeated' = FALSE
  /\ \/ Cardinality(live) < MaxOther /\ \E n \in OtherRequests : kmalloc(n)
     \/ \E l \in live : kfree(l)
     \/ \E l \in live, q \in Pages, h \in ClientData : ClientWrites(l, q, h)
     \/ proc_build_address_space
  /\ UNCHANGED <<step, bufs, before, called>>

TestNext ==
  \/ OtherClient
  \/ cmd_heaptest
  \/ TestStep
  \/ CallStep /\ UNCHANGED testVars

(* The CPU keeps executing the command it is in.                            *)
TestSpec == TestInit /\ [][TestNext]_allVars /\ WF_vars(CallStep) /\ WF_allVars(TestStep)

----------------------------------------------------------------------------

(* There is neither a listed block nor a run of free pages for order o.     *)
NoRoomFor(o) ==
  /\ FreeRuns(2 * Size[o] - 1) = {}
  /\ \A k \in Orders : k >= o => free_lists[k] = <<>>

(* The verdict can be believed until the next command: OK means that nobody *)
(* holds a block and the heap has the pages (d2) requires; heaptest fails   *)
(* only because somebody holds one, the heap never had that many pages, or  *)
(* there is no memory for one of its buffers, never because freed memory    *)
(* does not come back (repl.c:296-408).                                     *)
VerdictTruthful ==
  /\ verdict = "OK" => live = {} /\ Cardinality(PulledPages) >= MinFree
  /\ verdict = "accounting" => live # {} \/ Cardinality(PulledPages) < MinFree
  /\ verdict = "NULL" => \E s \in DOMAIN SlotSize : NoRoomFor(OrderFor(PagesFor(SlotSize[s])))

(* What the command still holds as it ends.                                 *)
Leaked == live' \cap UNION Range(bufs)

(* heaptest gives back all its buffers on every way out but one, whichever  *)
(* of the freed blocks its later steps got again: only a kmalloc that       *)
(* returns NULL makes it skip its kfrees (repl.c:326-331, 358-365, 402).    *)
LeakOnlyOnNull == [][step # 0 /\ step' = 0 /\ verdict' # "NULL" => Leaked = {}]_allVars

(* heaptest run again at once succeeds again (ADR-017: "deterministic"):    *)
(* the slack and the halves the first round leaves on the lists never make  *)
(* the second one pull more than there is.                                  *)
RepeatSucceeds == repeated => verdict \in {"none", "OK"}
=============================================================================
