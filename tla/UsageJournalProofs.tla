------------------------- MODULE UsageJournalProofs -------------------------
(***************************************************************************)
(* Accounting of UsageJournal for any number of writers, calls, locks and  *)
(* deaths of the collector: what is counted is counted once per life of    *)
(* the collector, and what is lost was left behind in a .flush.            *)
(***************************************************************************)
EXTENDS UsageJournal, TLAPS

\* Two names never stand for the same inode.
Distinct == \A f, g \in Files : name[f] # 0 /\ name[f] = name[g] => f = g

\* What no call has begun with is blank.
Blank ==
  \A k \in Calls : k > calls =>
    /\ content[k] = {} /\ opened[k] = 0 /\ ~Written(k)
    /\ \A f \in Files : name[f] # k
    /\ \A c \in Calls : opened[c] # k

\* A call writes one line, into one inode.
OneLine ==
  \A k \in Calls, i \in Inodes : k \in content[i] =>
    /\ opened[k] = 0
    /\ \A j \in Inodes : k \in content[j] => i = j

\* While it consumes, the collector has open the inode its name stands for.
Busy == pc \in {"consume", "commit", "unlink"} => fd # 0 /\ fd = name[file]

\* The transaction holds lines of that inode, and holds none between two of them.
InBatch == IF pc = "commit" THEN batch \subseteq content[fd] ELSE batch = {}

\* A line that may still be counted, because it is in a transaction, or in a file
\* that is not about to be deleted.
Countable(k) ==
  k \in batch \/ \E f \in Files : InFile(k, f) /\ ~(pc = "unlink" /\ f = file)

\* What makes CountedOnce inductive.
Counts ==
  \A k \in Calls :
    /\ ledger[k] <= 1 + crashes
    /\ Countable(k) => ledger[k] <= crashes
    /\ ~Written(k) => ledger[k] = 0

\* What the collector has done with each file when it comes to the next.
Order ==
  /\ pc = "rotate" => name["flush"] = 0
  /\ pc \in {"idle", "swap"} /\ name["flush"] # 0 => locks + crashes > 0
  /\ pc = "flush" \/ (pc \in {"consume", "commit", "unlink"} /\ file = "flush") =>
       name["retry"] = 0

\* The lines of the file being consumed are in the transaction, then counted, except
\* those that were written too late.
Read ==
  \A k \in Calls :
    /\ pc = "commit" /\ k \in content[fd] => k \in batch \cup late
    /\ pc = "unlink" /\ k \in content[fd] => ledger[k] > 0 \/ k \in late

\* The shape of the files and of the collector's work on them.
Shape == TypeOK /\ Distinct /\ Blank /\ OneLine /\ Busy /\ InBatch

-----------------------------------------------------------------------------
(* The type invariant *)

LEMMA TypeStep == TypeOK /\ Busy /\ [Next]_vars => TypeOK'
<1> SUFFICES ASSUME TypeOK, Busy, [Next]_vars PROVE TypeOK'
  OBVIOUS
<1> USE JournalAssumption DEF Calls, Inodes, Files, Places
<1>1. ASSUME NEW k \in Calls, Open(k) PROVE TypeOK'
  BY <1>1 DEF TypeOK, Open, collector
<1>2. ASSUME NEW k \in Calls, Write(k) PROVE TypeOK'
  BY <1>2 DEF TypeOK, Write, collector
<1>3. ASSUME NEW k \in Calls, GiveUp(k) PROVE TypeOK'
  BY <1>3 DEF TypeOK, GiveUp, collector
<1>4. CASE Poll
  BY <1>4 DEF TypeOK, Poll, Goto, journal
<1>5. CASE Swap
  BY <1>5 DEF TypeOK, Swap, Goto, Rename
<1>6. CASE TakeRetry
  BY <1>6 DEF TypeOK, TakeRetry, Take, Goto, journal
<1>7. CASE TakeFlush
  BY <1>7 DEF TypeOK, TakeFlush, Take, Goto, journal
<1>8. CASE Consume
  BY <1>8 DEF TypeOK, Consume, Goto, journal, Busy
<1>9. CASE Locked
  BY <1>9 DEF TypeOK, Locked, Goto, Rename
<1>10. CASE Commit
  BY <1>10 DEF TypeOK, Commit, Goto, journal
<1>11. CASE Unlink
  BY <1>11 DEF TypeOK, Unlink, Goto
<1>12. CASE Rotate
  BY <1>12 DEF TypeOK, Rotate, Goto
<1>13. CASE Crash
  BY <1>13 DEF TypeOK, Crash, Goto, journal
<1>14. CASE UNCHANGED vars
  BY <1>14 DEF TypeOK, vars, journal, collector
<1> QED
  BY <1>1, <1>2, <1>3, <1>4, <1>5, <1>6, <1>7, <1>8, <1>9, <1>10, <1>11, <1>12, <1>13, <1>14
     DEF Next, Cycle

LEMMA TypeInit == Init => TypeOK
BY JournalAssumption DEF Init, TypeOK, Calls, Inodes, Files, Places

-----------------------------------------------------------------------------
(* The shape of the files *)

LEMMA DistinctStep == Shape /\ [Next]_vars => Distinct'
<1> SUFFICES ASSUME Shape, [Next]_vars PROVE Distinct'
  OBVIOUS
<1> USE JournalAssumption DEF Calls, Inodes, Files, Shape, TypeOK
<1>1. ASSUME NEW k \in Calls, Open(k) PROVE Distinct'
  BY <1>1 DEF Distinct, Open, Blank
<1>2. CASE UNCHANGED name
  BY <1>2 DEF Distinct
<1>3. CASE Swap
  BY <1>3 DEF Distinct, Swap, Rename
<1>4. CASE Locked
  BY <1>4 DEF Distinct, Locked, Rename
<1>5. CASE Unlink
  BY <1>5 DEF Distinct, Unlink
<1>6. CASE Rotate
  BY <1>6 DEF Distinct, Rotate
<1> QED
  BY <1>1, <1>2, <1>3, <1>4, <1>5, <1>6
     DEF Next, Cycle, Write, GiveUp, Poll, TakeRetry, TakeFlush, Take, Consume, Commit, Crash,
         vars, journal

LEMMA BlankStep == Shape /\ [Next]_vars => Blank'
<1> SUFFICES ASSUME Shape, [Next]_vars PROVE Blank'
  OBVIOUS
<1> USE JournalAssumption DEF Calls, Inodes, Files, Shape, TypeOK
<1>1. ASSUME NEW k \in Calls, Open(k) PROVE Blank'
  BY <1>1 DEF Blank, Open, Written
<1>2. ASSUME NEW k \in Calls, Write(k) PROVE Blank'
  <2> SUFFICES ASSUME NEW j \in Calls, j > calls
               PROVE  /\ content'[j] = {} /\ opened'[j] = 0 /\ ~Written(j)'
                      /\ \A f \in Files : name'[f] # j
                      /\ \A c \in Calls : opened'[c] # j
    BY <1>2 DEF Blank, Write
  <2>1. j # k /\ opened[k] # j
    BY <1>2 DEF Write, Blank
  <2>2. ~Written(j)'
    BY <1>2, <2>1 DEF Write, Blank, Written
  <2> QED
    BY <1>2, <2>1, <2>2 DEF Write, Blank
<1>3. ASSUME NEW k \in Calls, GiveUp(k) PROVE Blank'
  BY <1>3 DEF Blank, GiveUp, Written
<1>4. CASE UNCHANGED journal
  BY <1>4 DEF Blank, Written, journal
<1>5. CASE Swap
  BY <1>5 DEF Blank, Swap, Rename, Written
<1>6. CASE Locked
  BY <1>6 DEF Blank, Locked, Rename, Written
<1>7. CASE Unlink
  BY <1>7 DEF Blank, Unlink, Written
<1>8. CASE Rotate
  BY <1>8 DEF Blank, Rotate, Written
<1> QED
  BY <1>1, <1>2, <1>3, <1>4, <1>5, <1>6, <1>7, <1>8
     DEF Next, Cycle, Poll, TakeRetry, TakeFlush, Take, Consume, Commit, Crash, vars

LEMMA OneLineStep == Shape /\ [Next]_vars => OneLine'
<1> SUFFICES ASSUME Shape, [Next]_vars PROVE OneLine'
  OBVIOUS
<1> USE JournalAssumption DEF Calls, Inodes, Files, Shape, TypeOK
<1>1. ASSUME NEW k \in Calls, Open(k) PROVE OneLine'
  BY <1>1 DEF OneLine, Open, Blank, Written
<1>2. ASSUME NEW k \in Calls, Write(k) PROVE OneLine'
  BY <1>2 DEF OneLine, Write
<1>3. ASSUME NEW k \in Calls, GiveUp(k) PROVE OneLine'
  BY <1>3 DEF OneLine, GiveUp
<1>4. CASE UNCHANGED <<content, opened>>
  BY <1>4 DEF OneLine
<1> QED
  BY <1>1, <1>2, <1>3, <1>4
     DEF Next, Cycle, Poll, Swap, TakeRetry, TakeFlush, Take, Consume, Locked, Commit, Unlink,
         Rotate, Crash, vars, journal

LEMMA BusyStep == Shape /\ [Next]_vars => (Busy /\ InBatch)'
<1> SUFFICES ASSUME Shape, [Next]_vars PROVE (Busy /\ InBatch)'
  OBVIOUS
<1> USE JournalAssumption DEF Calls, Inodes, Files, Shape, TypeOK, Busy, InBatch, Goto
<1>1. ASSUME NEW k \in Calls, Open(k) PROVE (Busy /\ InBatch)'
  BY <1>1 DEF Open, collector
<1>2. ASSUME NEW k \in Calls, Write(k) PROVE (Busy /\ InBatch)'
  BY <1>2 DEF Write, collector
<1>3. ASSUME NEW k \in Calls, GiveUp(k) PROVE (Busy /\ InBatch)'
  BY <1>3 DEF GiveUp, collector
<1>4. CASE TakeRetry \/ TakeFlush
  BY <1>4 DEF TakeRetry, TakeFlush, Take, journal
<1>5. CASE Consume
  BY <1>5 DEF Consume, journal
<1>6. CASE Poll \/ Swap \/ Locked \/ Commit \/ Unlink \/ Rotate \/ Crash
  BY <1>6 DEF Poll, Swap, Locked, Rename, Commit, Unlink, Rotate, Crash, journal
<1>7. CASE UNCHANGED vars
  BY <1>7 DEF vars, journal, collector
<1> QED
  BY <1>1, <1>2, <1>3, <1>4, <1>5, <1>6, <1>7 DEF Next, Cycle

LEMMA ShapeStep == Shape /\ [Next]_vars => Shape'
BY TypeStep, DistinctStep, BlankStep, OneLineStep, BusyStep DEF Shape

LEMMA ShapeInit == Init => Shape
BY TypeInit, JournalAssumption
   DEF Init, Shape, Distinct, Blank, OneLine, Busy, InBatch, Written, Calls, Inodes, Files

\* Every variable of the journal keeps its type: files hold lines of calls that were
\* made, and what the collector counts are such lines. Shape is what makes it inductive.
THEOREM TypeCorrect == Spec => []TypeOK
<1>1. Shape => TypeOK
  BY DEF Shape
<1> QED
  BY ShapeInit, ShapeStep, <1>1, PTL DEF Spec

-----------------------------------------------------------------------------
(* Counting *)

LEMMA CountsStep == Shape /\ Counts /\ [Next]_vars => Counts'
<1> SUFFICES ASSUME Shape, Counts, [Next]_vars, NEW k \in Calls
             PROVE  /\ ledger'[k] <= 1 + crashes'
                    /\ Countable(k)' => ledger'[k] <= crashes'
                    /\ ~Written(k)' => ledger'[k] = 0
  BY DEF Counts
<1> DEFINE G == /\ ledger'[k] <= 1 + crashes'
                /\ Countable(k)' => ledger'[k] <= crashes'
                /\ ~Written(k)' => ledger'[k] = 0
<1> USE JournalAssumption DEF Calls, Inodes, Files, Shape, TypeOK, Goto
<1>0. /\ ledger[k] \in Nat /\ crashes \in Nat
      /\ ledger[k] <= 1 + crashes
      /\ Countable(k) => ledger[k] <= crashes
      /\ ~Written(k) => ledger[k] = 0
  BY DEF Counts
<1>a. ASSUME UNCHANGED <<ledger, crashes, content>>, Countable(k)' => Countable(k) PROVE G
  BY <1>a, <1>0 DEF Written
<1>1. ASSUME NEW c \in Calls, Open(c) PROVE G
  <2>1. Countable(k)' => Countable(k)
    BY <1>1 DEF Open, Countable, InFile, collector, Blank
  <2> QED
    BY <1>1, <1>a, <2>1 DEF Open
<1>2. ASSUME NEW c \in Calls, Write(c) PROVE G
  <2>1. CASE c = k
    <3>1. ~Written(k)
      BY <1>2, <2>1 DEF Write, OneLine, Written
    <3> QED
      BY <1>2, <3>1, <1>0 DEF Write
  <2>2. CASE c # k
    <3>1. \A i \in Inodes : k \in content'[i] <=> k \in content[i]
      BY <1>2, <2>2 DEF Write
    <3>2. Countable(k)' => Countable(k)
      BY <1>2, <3>1 DEF Write, Countable, InFile, collector
    <3>3. Written(k)' <=> Written(k)
      BY <3>1 DEF Written
    <3> QED
      BY <1>2, <3>2, <3>3, <1>0 DEF Write
  <2> QED
    BY <2>1, <2>2
<1>3. ASSUME NEW c \in Calls, GiveUp(c) PROVE G
  BY <1>3, <1>a DEF GiveUp, Countable, InFile, collector
<1>4. CASE Poll
  BY <1>4, <1>a DEF Poll, Countable, InFile, journal
<1>5. CASE Swap
  BY <1>5, <1>a DEF Swap, Rename, Countable, InFile
<1>6. CASE TakeRetry \/ TakeFlush
  BY <1>6, <1>a DEF TakeRetry, TakeFlush, Take, Countable, InFile, journal
<1>7. CASE Consume
  BY <1>7, <1>a DEF Consume, Countable, InFile, journal, Busy
<1>8. CASE Locked
  BY <1>8, <1>a DEF Locked, Rename, Countable, InFile
<1>9. CASE Commit
  <2>1. CASE k \in batch
    <3>1. k \in content[fd] /\ fd = name[file] /\ fd # 0 /\ fd \in Inodes
      BY <1>9, <2>1 DEF Commit, Busy, InBatch
    <3>2. ~Countable(k)'
      BY <1>9, <3>1 DEF Commit, journal, Countable, InFile, OneLine, Distinct
    <3>3. ledger'[k] = ledger[k] + 1 /\ ledger[k] <= crashes /\ crashes' = crashes
      BY <1>9, <2>1, <1>0 DEF Commit, Countable
    <3>4. Written(k)'
      BY <1>9, <3>1 DEF Commit, journal, Written
    <3> QED
      BY <3>2, <3>3, <3>4, <1>0
  <2>2. CASE k \notin batch
    BY <1>9, <2>2, <1>0 DEF Commit, journal, Countable, InFile, Written
  <2> QED
    BY <2>1, <2>2
<1>10. CASE Unlink
  BY <1>10, <1>a DEF Unlink, Countable, InFile
<1>11. CASE Rotate
  BY <1>11, <1>a DEF Rotate, Countable, InFile
<1>12. CASE Crash
  BY <1>12, <1>0 DEF Crash, journal, Written
<1>13. CASE UNCHANGED vars
  BY <1>13, <1>a DEF vars, journal, collector, Countable, InFile
<1> QED
  BY <1>1, <1>2, <1>3, <1>4, <1>5, <1>6, <1>7, <1>8, <1>9, <1>10, <1>11, <1>12, <1>13
     DEF Next, Cycle

\* A call is counted at most once per life of the collector.
THEOREM CallsCountedOnce == Spec => []CountedOnce
<1>1. Init => Shape /\ Counts
  BY ShapeInit DEF Init, Counts, Countable, InFile, Calls, Inodes, Files
<1>2. Shape /\ Counts /\ [Next]_vars => (Shape /\ Counts)'
  BY ShapeStep, CountsStep
<1>3. Counts => CountedOnce
  BY DEF Counts, CountedOnce
<1> QED
  BY <1>1, <1>2, <1>3, PTL DEF Spec

-----------------------------------------------------------------------------
(* What is lost *)

LEMMA OrderStep == Shape /\ Order /\ [Next]_vars => Order'
<1> SUFFICES ASSUME Shape, Order, [Next]_vars PROVE Order'
  OBVIOUS
<1> USE JournalAssumption DEF Calls, Inodes, Files, Shape, TypeOK, Order, Goto
<1>1. ASSUME NEW k \in Calls, Open(k) PROVE Order'
  BY <1>1 DEF Open, collector
<1>2. ASSUME NEW k \in Calls, Write(k) \/ GiveUp(k) PROVE Order'
  BY <1>2 DEF Write, GiveUp, collector
<1>3. CASE Poll \/ Consume \/ Commit
  BY <1>3 DEF Poll, Consume, Commit, journal
<1>4. CASE Swap
  BY <1>4 DEF Swap, Rename
<1>5. CASE TakeRetry \/ TakeFlush
  BY <1>5 DEF TakeRetry, TakeFlush, Take, journal
<1>6. CASE Locked
  BY <1>6 DEF Locked, Rename
<1>7. CASE Unlink
  BY <1>7 DEF Unlink
<1>8. CASE Rotate
  BY <1>8 DEF Rotate
<1>9. CASE Crash
  BY <1>9 DEF Crash, journal
<1>10. CASE UNCHANGED vars
  BY <1>10 DEF vars, journal, collector
<1> QED
  BY <1>1, <1>2, <1>3, <1>4, <1>5, <1>6, <1>7, <1>8, <1>9, <1>10 DEF Next, Cycle

LEMMA ReadStep == Shape /\ Read /\ [Next]_vars => Read'
<1> SUFFICES ASSUME Shape, Read, [Next]_vars, NEW k \in Calls
             PROVE  /\ pc' = "commit" /\ k \in content'[fd'] => k \in batch' \cup late'
                    /\ pc' = "unlink" /\ k \in content'[fd'] => ledger'[k] > 0 \/ k \in late'
  BY DEF Read
<1> USE JournalAssumption DEF Calls, Inodes, Files, Shape, TypeOK, Read, Goto
<1>1. ASSUME NEW c \in Calls, Open(c) \/ GiveUp(c) PROVE Read'
  BY <1>1 DEF Open, GiveUp, collector
<1>2. ASSUME NEW c \in Calls, Write(c) PROVE Read'
  BY <1>2 DEF Write, collector
<1>3. CASE Consume
  BY <1>3 DEF Consume, journal
<1>4. CASE Commit
  BY <1>4 DEF Commit, journal
<1>5. CASE Poll \/ Swap \/ Locked \/ Unlink \/ Rotate \/ Crash
  BY <1>5 DEF Poll, Swap, Locked, Unlink, Rotate, Crash
<1>6. CASE TakeRetry \/ TakeFlush
  BY <1>6 DEF TakeRetry, TakeFlush, Take
<1>7. CASE UNCHANGED vars
  BY <1>7 DEF vars, journal, collector
<1> QED
  BY <1>1, <1>2, <1>3, <1>4, <1>5, <1>6, <1>7 DEF Next, Cycle

\* A step that stops keeping a line is the rename over a .flush left behind.
LEMMA LossStep ==
  ASSUME Shape, Order, Read, [Next]_vars, NEW k \in Calls \ late, Kept(k), ~Kept(k)'
  PROVE  pc = "swap" /\ InFile(k, "flush") /\ locks + crashes > 0
<1> USE JournalAssumption DEF Calls, Inodes, Files, Shape, TypeOK, Goto
<1>1. ASSUME NEW c \in Calls, Open(c) PROVE FALSE
  BY <1>1 DEF Open, Kept, InFile, collector, Blank
<1>2. ASSUME NEW c \in Calls, Write(c) \/ GiveUp(c) PROVE FALSE
  <2>1. /\ UNCHANGED <<name, batch, ledger>>
        /\ \A i \in Inodes : content[i] \subseteq content'[i]
    <3>1. CASE Write(c)
      BY <3>1 DEF Write, collector
    <3>2. CASE GiveUp(c)
      BY <3>2 DEF GiveUp, collector
    <3> QED
      BY <1>2, <3>1, <3>2
  <2> QED
    BY <2>1 DEF Kept, InFile
<1>3. CASE Poll \/ Consume \/ TakeRetry \/ TakeFlush
  BY <1>3 DEF Poll, Consume, TakeRetry, TakeFlush, Take, Kept, InFile, journal, InBatch
<1>4. CASE Locked
  BY <1>4 DEF Locked, Rename, Kept, InFile, Order
<1>5. CASE Commit
  BY <1>5 DEF Commit, Kept, InFile, journal
<1>6. CASE Unlink
  BY <1>6 DEF Unlink, Kept, InFile, Read, Busy
<1>7. CASE Rotate
  BY <1>7 DEF Rotate, Kept, InFile, Order
<1>8. CASE Crash
  BY <1>8 DEF Crash, Kept, InFile, journal, InBatch, Busy
<1>9. CASE Swap
  BY <1>9 DEF Swap, Rename, Kept, InFile, Order
<1>10. CASE UNCHANGED vars
  BY <1>10 DEF vars, journal, collector, Kept, InFile
<1> QED
  BY <1>1, <1>2, <1>3, <1>4, <1>5, <1>6, <1>7, <1>8, <1>9, <1>10 DEF Next, Cycle

\* Whatever the locks, deaths and writers do, a line written in time stops being kept
\* only when the rename of a cycle finds a .flush that an earlier one left behind.
THEOREM LossesAreLeftovers == Spec => OnlyLeftoversLost
<1> DEFINE IInv == Shape /\ Order /\ Read
<1>1. Init => IInv
  BY ShapeInit DEF Init, Order, Read, Files, Calls, Inodes
<1>2. IInv /\ [Next]_vars => IInv'
  BY ShapeStep, OrderStep, ReadStep
<1>3. IInv /\ [Next]_vars =>
        [\A k \in Calls \ late :
           Kept(k) /\ ~Kept(k)' =>
             pc = "swap" /\ InFile(k, "flush") /\ locks + crashes > 0]_vars
  BY LossStep
<1> QED
  BY <1>1, <1>2, <1>3, PTL DEF Spec, OnlyLeftoversLost
=============================================================================
