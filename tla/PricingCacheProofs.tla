------------------------- MODULE PricingCacheProofs -------------------------
(***************************************************************************)
(* The pricing cache keeps its promise for any number of processes, price  *)
(* lists, ttl and latency: PricingCache implements BoundedStaleness.       *)
(***************************************************************************)
EXTENDS PricingCache, TLAPS

USE CacheAssumption DEF CacheAssumption

-----------------------------------------------------------------------------
\* When the last page is read, what was read is a list.
LEMMA LastPage ==
    ASSUME NEW s \in Seq(Prices), Len(s) \in PagesRead, Len(s) + 1 \notin PagesRead
    PROVE  s \in Lists
<1>1. PICK n \in Nat \ {0} : PagesRead = 1..n
  BY DEF PagesRead
<1>2. Len(s) = n
  BY <1>1
<1>3. s \in [1..Len(s) -> Prices]
  OBVIOUS
<1>. QED
  BY <1>1, <1>2, <1>3 DEF Lists

\* And nothing but pages were read.
LEMMA PagesEnd ==
    ASSUME NEW n \in PagesRead, n + 1 \notin PagesRead
    PROVE  PagesRead \subseteq 1..n
BY DEF PagesRead

\* The initial state has the types.
LEMMA TypeInit == Init => TypeOK
<1> SUFFICES ASSUME Init PROVE TypeOK
  OBVIOUS
<1>1. PICK v \in Prices : log = <<v>>
  BY DEF Init
<1>2. log \in Seq(Prices) /\ Len(log) = 1
  BY <1>1
<1>3. 1 \in 1..(MaxTicks + 1)
  OBVIOUS
<1>4. <<>> \in Seq(Prices)
  OBVIOUS
<1>. QED
  BY <1>2, <1>3, <1>4 DEF Init, TypeOK, Labels

\* What a call returning v does to the typed state.
LEMMA ReturnType ==
    ASSUME TypeOK, NEW p \in Procs, NEW v \in Lists \cup {Nothing}, Return(p, v)
    PROVE  /\ pc' \in [Procs -> Labels] /\ began' \in [Procs -> Nat]
           /\ raw' \in [Procs -> Entries \cup {Nothing, Corrupt}]
           /\ entry' \in [Procs -> Entries \cup {Nothing}]
           /\ pages' \in [Procs -> Seq(Prices)]
           /\ answer' \in [Procs -> Lists \cup {Nothing}]
<1>1. <<>> \in Seq(Prices)
  OBVIOUS
<1>. QED
  BY <1>1 DEF TypeOK, Return, Labels

\* The call is past the price source only with an entry in hand.
HasEntry ==
    \A p \in Procs :
        /\ pc[p] \in {"create", "write", "rename"} => entry[p] \in Entries
        /\ pc[p] = "asked" => began[p] \in 1..Now

\* Every step keeps the types.
LEMMA TypeStep == TypeOK /\ HasEntry /\ [Next]_vars => TypeOK'
<1> SUFFICES ASSUME TypeOK, HasEntry, [Next]_vars PROVE TypeOK'
  OBVIOUS
<1> USE DEF TypeOK, disk, Goto, Labels
<1>0. \A p \in Procs : pc[p] \in {"create", "write", "rename"} =>
                          entry[p] \in Entries /\ entry[p].products \in Lists
  BY DEF HasEntry, Entries
<1>1. CASE Tick
  <2>1. PICK v \in Prices : log' = Append(log, v)
    BY <1>1 DEF Tick
  <2>2. log' \in Seq(Prices) /\ Len(log') = Len(log) + 1
    BY <2>1
  <2>3. Len(log') \in 1..(MaxTicks + 1)
    BY <1>1, <2>2 DEF Tick, Now
  <2>. QED
    BY <1>1, <2>2, <2>3 DEF Tick, local
<1>2. ASSUME NEW p \in Procs, Read(p) PROVE TypeOK'
  BY <1>2 DEF Read
<1>3. ASSUME NEW p \in Procs, Check(p) PROVE TypeOK'
  <2>1. CASE Return(p, raw[p].products) /\ ~ Useless(raw[p]) /\ raw[p] # Nothing
    <3>1. raw[p] \in Entries
      BY <2>1 DEF Useless
    <3>2. raw[p].products \in Lists
      BY <3>1 DEF Entries
    <3>. QED
      BY <1>3, <2>1, <3>2, ReturnType DEF Check
  <2>2. CASE Goto(p, "ask") /\ UNCHANGED <<raw, began, pages, entry, answer>>
    BY <1>3, <2>2 DEF Check
  <2>3. CASE Goto(p, "remove") /\ raw' = [raw EXCEPT ![p] = Nothing] /\ UNCHANGED <<began, pages, entry, answer>>
    BY <1>3, <2>3 DEF Check
  <2>. QED
    BY <1>3, <2>1, <2>2, <2>3 DEF Check
<1>4. ASSUME NEW p \in Procs, Remove(p) PROVE TypeOK'
  BY <1>4 DEF Remove
<1>5. ASSUME NEW p \in Procs, Ask(p) PROVE TypeOK'
  <2>1. <<>> \in Seq(Prices) /\ Now \in Nat
    BY DEF Now
  <2>. QED
    BY <1>5, <2>1 DEF Ask
<1>5a. ASSUME NEW p \in Procs, Page(p) PROVE TypeOK'
  <2>1. log[Now] \in Prices
    BY DEF Now
  <2>2. Append(pages[p], log[Now]) \in Seq(Prices)
    BY <2>1
  <2>. QED
    BY <1>5a, <2>2 DEF Page
<1>6. ASSUME NEW p \in Procs, AskFails(p) PROVE TypeOK'
  BY <1>6, ReturnType DEF AskFails
<1>7. ASSUME NEW p \in Procs, Answered(p) PROVE TypeOK'
  <2>1. pages[p] \in Lists
    BY <1>7, LastPage DEF Answered
  <2>2. [fetched |-> Now, products |-> pages[p]] \in Entries
    BY <2>1 DEF Entries, Now
  <2>3. <<>> \in Seq(Prices)
    OBVIOUS
  <2>. QED
    BY <1>7, <2>2, <2>3 DEF Answered
<1>8. ASSUME NEW p \in Procs, Create(p) PROVE TypeOK'
  <2>1. CASE Return(p, entry[p].products) /\ UNCHANGED temps
    BY <1>0, <1>8, <2>1, ReturnType DEF Create
  <2>2. CASE temps' = [temps EXCEPT ![p] = Corrupt] /\ Goto(p, "write")
              /\ UNCHANGED <<raw, began, pages, entry, answer>>
    BY <1>8, <2>2 DEF Create
  <2>. QED
    BY <1>8, <2>1, <2>2 DEF Create
<1>9. ASSUME NEW p \in Procs, GiveUp(p) PROVE TypeOK'
  <2>1. Return(p, entry[p].products) /\ entry[p].products \in Lists
    BY <1>0, <1>9 DEF GiveUp
  <2>. QED
    BY <1>9, <2>1, ReturnType DEF GiveUp
<1>10. ASSUME NEW p \in Procs, Write(p) PROVE TypeOK'
  BY <1>10 DEF Write
<1>11. ASSUME NEW p \in Procs, Rename(p) PROVE TypeOK'
  <2>1. Return(p, entry[p].products) /\ entry[p].products \in Lists
    BY <1>0, <1>11 DEF Rename
  <2>. QED
    BY <1>11, <2>1, ReturnType DEF Rename, Installs
<1>12. ASSUME NEW p \in Procs, Crash(p) PROVE TypeOK'
  BY <1>12, ReturnType DEF Crash
<1>13. CASE UNCHANGED vars
  BY <1>13 DEF vars, local
<1>. QED
  BY <1>1, <1>2, <1>3, <1>4, <1>5, <1>5a, <1>6, <1>7, <1>8, <1>9, <1>10, <1>11, <1>12, <1>13
     DEF Next, Step

-----------------------------------------------------------------------------
\* An entry is honest when each page of its list was in force shortly before
\* its stamp.
Honest(e) ==
    \A i \in PagesRead : \E t \in 1..Now :
        /\ t <= e.fetched /\ e.fetched <= Now
        /\ e.fetched - t <= Latency
        /\ log[t] = e.products[i]

\* The pages read so far were in force since moment b.
Since(b, s) == \A i \in 1..Len(s) : \E t \in b..Now : log[t] = s[i]

\* Whatever a file holds, and whatever a process has read or fetched, is honest.
CacheInv ==
    /\ file \in Entries => Honest(file)
    /\ \A p \in Procs :
          /\ temps[p] \in Entries => Honest(temps[p])
          /\ raw[p] \in Entries => Honest(raw[p])
          /\ pc[p] = "asked" => /\ began[p] \in 1..Now /\ Now - began[p] <= Latency
                             /\ Since(began[p], pages[p])
          /\ pc[p] \in {"create", "write", "rename"} => entry[p] \in Entries /\ Honest(entry[p])
          /\ pc[p] = "rename" => temps[p] \in Entries

\* An honest state is one in which a call past the source has its entry.
LEMMA CacheInvHasEntry == CacheInv => HasEntry
BY DEF CacheInv, HasEntry

\* Honesty does not wear off.
LEMMA HonestStays ==
    ASSUME TypeOK, \/ log' = log
                   \/ \E v \in Prices : log' = Append(log, v)
    PROVE  \A e \in Entries : Honest(e) => Honest(e)'
<1>1. log \in Seq(Prices) /\ Len(log) \in Nat
  BY DEF TypeOK
<1>2. /\ Len(log') \in Nat /\ Len(log) <= Len(log')
      /\ \A t \in 1..Len(log) : log'[t] = log[t]
  BY <1>1
<1>3. SUFFICES ASSUME NEW e \in Entries, Honest(e), NEW i \in PagesRead
               PROVE  \E t \in 1..Len(log') : /\ t <= e.fetched /\ e.fetched <= Len(log')
                                              /\ e.fetched - t <= Latency
                                              /\ log'[t] = e.products[i]
  BY DEF Honest, Now
<1>4. PICK t \in 1..Len(log) : /\ t <= e.fetched /\ e.fetched <= Len(log)
                               /\ e.fetched - t <= Latency /\ log[t] = e.products[i]
  BY <1>3 DEF Honest, Now
<1>5. e.fetched \in Nat
  BY DEF Entries
<1>. QED
  BY <1>2, <1>4, <1>5

\* Nor do the pages read so far become older than they were.
LEMMA SinceStays ==
    ASSUME TypeOK, \/ log' = log
                   \/ \E v \in Prices : log' = Append(log, v)
    PROVE  \A b \in Nat \ {0}, q \in Seq(Prices) : Since(b, q) => Since(b, q)'
<1>1. log \in Seq(Prices) /\ Len(log) \in Nat
  BY DEF TypeOK
<1>2. /\ Len(log') \in Nat /\ Len(log) <= Len(log')
      /\ \A t \in 1..Len(log) : log'[t] = log[t]
  BY <1>1
<1>3. SUFFICES ASSUME NEW b \in Nat \ {0}, NEW q \in Seq(Prices), Since(b, q), NEW i \in 1..Len(q)
               PROVE  \E t \in b..Len(log') : log'[t] = q[i]
  BY DEF Since, Now
<1>4. PICK t \in b..Len(log) : log[t] = q[i]
  BY <1>3 DEF Since, Now
<1>. QED
  BY <1>2, <1>4

\* What is left of the invariant when a call returns.
LEMMA ReturnInv ==
    ASSUME TypeOK, CacheInv, NEW p \in Procs, NEW v, Return(p, v), UNCHANGED log,
           file' \in Entries => Honest(file)',
           temps' \in {temps, [temps EXCEPT ![p] = Nothing]}
    PROVE  CacheInv'
<1>1. \A e \in Entries : Honest(e) => Honest(e)'
  BY HonestStays
<1>2. ASSUME NEW q \in Procs, q = p
      PROVE  temps'[q] \in {temps[q], Nothing} /\ raw'[q] = Nothing /\ pc'[q] = "idle"
  BY <1>2 DEF TypeOK, Return
<1>3. ASSUME NEW q \in Procs, q # p
      PROVE  temps'[q] = temps[q] /\ raw'[q] = raw[q] /\ pc'[q] = pc[q] /\ began'[q] = began[q]
             /\ entry'[q] = entry[q] /\ pages'[q] = pages[q]
  BY <1>3 DEF TypeOK, Return
<1>4. Now' = Now
  BY DEF Now
<1>5. ASSUME NEW q \in Procs, pc'[q] = "asked" PROVE Since(began[q], pages[q])'
  <2>1. q # p /\ pc[q] = "asked"
    BY <1>2, <1>3, <1>5
  <2>2. Since(began[q], pages[q])
    BY <2>1 DEF CacheInv
  <2>. QED
    BY <1>3, <1>4, <2>1, <2>2 DEF Since
<1>. QED
  BY <1>1, <1>2, <1>3, <1>4, <1>5 DEF CacheInv

\* What is left of it when process p moves on and the others stay.
LEMMA MoveInv ==
    ASSUME TypeOK, CacheInv, NEW p \in Procs, UNCHANGED log,
           file' \in {file, Nothing},
           \A q \in Procs : q # p => /\ temps'[q] = temps[q] /\ raw'[q] = raw[q]
                                     /\ pc'[q] = pc[q] /\ began'[q] = began[q]
                                     /\ entry'[q] = entry[q] /\ pages'[q] = pages[q],
           temps'[p] \in Entries => Honest(temps'[p]),
           raw'[p] \in Entries => Honest(raw'[p]),
           pc'[p] = "asked" => /\ began'[p] \in 1..Now /\ Now - began'[p] <= Latency
                               /\ Since(began'[p], pages'[p]),
           pc'[p] \in {"create", "write", "rename"} => entry'[p] \in Entries /\ Honest(entry'[p]),
           pc'[p] = "rename" => temps'[p] \in Entries
    PROVE  CacheInv'
<1>1. \A e \in Entries : Honest(e) => Honest(e)'
  BY HonestStays
<1>2. Now' = Now
  BY DEF Now
<1>3. file' \in Entries => Honest(file)'
  <2>1. ASSUME file' \in Entries PROVE file' = file /\ Honest(file)
    BY <2>1 DEF CacheInv
  <2>2. ASSUME file' \in Entries PROVE \E e \in Entries : e = file' /\ Honest(e)
    BY <2>1, <2>2
  <2>. QED
    BY <1>1, <2>2
<1>4. ASSUME NEW q \in Procs, pc'[q] = "asked" PROVE Since(began[q], pages[q])'
  <2>1. CASE q = p
    BY <1>2, <1>4, <2>1 DEF Since
  <2>2. CASE q # p
    <3>1. Since(began[q], pages[q])
      BY <1>4, <2>2 DEF CacheInv
    <3>. QED
      BY <1>2, <2>2, <3>1 DEF Since
  <2>. QED
    BY <2>1, <2>2
<1>. QED
  BY <1>1, <1>2, <1>3, <1>4 DEF CacheInv

\* Every step keeps the invariant.
LEMMA CacheStep == TypeOK /\ CacheInv /\ [Next]_vars => CacheInv'
<1> SUFFICES ASSUME TypeOK, CacheInv, [Next]_vars PROVE CacheInv'
  OBVIOUS
<1>0. /\ log \in Seq(Prices) /\ Now \in Nat
      /\ pc \in [Procs -> Labels] /\ temps \in [Procs -> Entries \cup {Nothing, Corrupt}]
      /\ raw \in [Procs -> Entries \cup {Nothing, Corrupt}]
      /\ began \in [Procs -> Nat] /\ pages \in [Procs -> Seq(Prices)] /\ entry \in [Procs -> Entries \cup {Nothing}]
      /\ file \in Entries \cup {Nothing, Corrupt}
  BY DEF TypeOK, Now
<1> USE DEF disk, Goto
<1>1. CASE Tick
  <2>1. PICK v \in Prices : log' = Append(log, v)
    BY <1>1 DEF Tick
  <2>2. Now' = Now + 1
    BY <1>0, <2>1 DEF Now
  <2>3. \A e \in Entries : Honest(e) => Honest(e)'
    BY <2>1, HonestStays
  <2>4. UNCHANGED <<file, temps, pc, raw, began, pages, entry>>
    BY <1>1 DEF Tick, local
  <2>5. ASSUME NEW p \in Procs, pc[p] = "asked"
        PROVE  began[p] \in 1..Now' /\ Now' - began[p] <= Latency
    BY <1>0, <1>1, <2>2, <2>5 DEF Tick, CacheInv
  <2>6. ASSUME NEW p \in Procs, pc[p] = "asked" PROVE Since(began[p], pages[p])'
    <3>1. /\ Since(began[p], pages[p]) /\ began[p] \in Nat \ {0}
          /\ pages[p] \in Seq(Prices)
      BY <1>0, <2>6 DEF CacheInv
    <3>2. \A b \in Nat \ {0}, q \in Seq(Prices) : Since(b, q) => Since(b, q)'
      BY <2>1, SinceStays
    <3>3. \E b \in Nat \ {0}, q \in Seq(Prices) : b = began'[p] /\ q = pages'[p] /\ Since(b, q)
      BY <2>4, <3>1
    <3>. QED
      BY <3>2, <3>3
  <2>. QED
    BY <2>3, <2>4, <2>5, <2>6 DEF CacheInv
<1>2. ASSUME NEW p \in Procs, Read(p) PROVE CacheInv'
  <2>1. PICK bytes \in {file, Nothing} : raw' = [raw EXCEPT ![p] = bytes]
    BY <1>2 DEF Read
  <2>2. raw'[p] \in Entries => Honest(raw'[p])
    BY <1>0, <2>1 DEF CacheInv
  <2>. QED
    BY <1>0, <1>2, <2>1, <2>2, MoveInv DEF Read, CacheInv
<1>3. ASSUME NEW p \in Procs, Check(p) PROVE CacheInv'
  <2>0. temps[p] \in Entries => Honest(temps[p])
    BY DEF CacheInv
  <2>1. CASE Return(p, raw[p].products)
    <3>1. temps' = temps
      BY <1>3 DEF Check
    <3>2. \A e \in Entries : Honest(e) => Honest(e)'
      BY <1>3, HonestStays DEF Check
    <3>3. file' \in Entries => Honest(file)'
      BY <1>3, <3>2 DEF Check, CacheInv
    <3>. QED
      BY <1>3, <2>1, <3>1, <3>3, ReturnInv DEF Check
  <2>2. CASE Goto(p, "ask") /\ UNCHANGED <<raw, began, pages, entry, answer>>
    BY <1>0, <1>3, <2>0, <2>2, MoveInv DEF Check, CacheInv
  <2>3. CASE Goto(p, "remove") /\ raw' = [raw EXCEPT ![p] = Nothing] /\ UNCHANGED <<began, pages, entry, answer>>
    BY <1>0, <1>3, <2>0, <2>3, MoveInv DEF Check, CacheInv
  <2>. QED
    BY <1>3, <2>1, <2>2, <2>3 DEF Check
<1>4. ASSUME NEW p \in Procs, Remove(p) PROVE CacheInv'
  BY <1>0, <1>4, MoveInv DEF Remove, CacheInv
<1>5. ASSUME NEW p \in Procs, Ask(p) PROVE CacheInv'
  <2>1. Now \in 1..Now /\ Now - Now <= Latency
    BY DEF TypeOK, Now
  <2>2. temps[p] \in Entries => Honest(temps[p])
    BY DEF CacheInv
  <2>3. Since(Now, <<>>)
    BY DEF Since
  <2>4. began'[p] = Now /\ pages'[p] = <<>>
    BY <1>0, <1>5 DEF Ask
  <2>. QED
    BY <1>0, <1>5, <2>1, <2>2, <2>3, <2>4, MoveInv DEF Ask, CacheInv
<1>5a. ASSUME NEW p \in Procs, Page(p) PROVE CacheInv'
  <2>1. /\ began[p] \in 1..Now /\ Now - began[p] <= Latency /\ Since(began[p], pages[p])
        /\ temps[p] \in Entries => Honest(temps[p])
    BY <1>5a DEF Page, CacheInv
  <2>2. log[Now] \in Prices /\ pages[p] \in Seq(Prices)
    BY <1>0 DEF TypeOK, Now
  <2> DEFINE read == Append(pages[p], log[Now])
  <2>3. /\ Len(read) = Len(pages[p]) + 1 /\ read[Len(pages[p]) + 1] = log[Now]
        /\ \A i \in 1..Len(pages[p]) : read[i] = pages[p][i]
    BY <2>2
  <2>4. pages'[p] = read
    BY <1>0, <1>5a DEF Page
  <2>5. Len(pages[p]) \in Nat
    BY <2>2
  <2> HIDE DEF read
  <2>6. Since(began[p], read)
    <3> SUFFICES ASSUME NEW i \in 1..Len(read) PROVE \E t \in began[p]..Now : log[t] = read[i]
      BY DEF Since
    <3>1. CASE i = Len(pages[p]) + 1
      BY <1>0, <2>1, <2>3, <3>1
    <3>2. CASE i \in 1..Len(pages[p])
      BY <2>1, <2>3, <3>2 DEF Since
    <3>. QED
      BY <2>3, <2>5, <3>1, <3>2
  <2>. QED
    BY <1>0, <1>5a, <2>1, <2>4, <2>6, MoveInv DEF Page, CacheInv
<1>6. ASSUME NEW p \in Procs, AskFails(p) PROVE CacheInv'
  <2>1. temps' = temps
    BY <1>6 DEF AskFails
  <2>2. \A e \in Entries : Honest(e) => Honest(e)'
    BY <1>6, HonestStays DEF AskFails
  <2>. QED
    BY <1>6, <2>1, <2>2, ReturnInv DEF AskFails, CacheInv
<1>7. ASSUME NEW p \in Procs, Answered(p) PROVE CacheInv'
  <2> DEFINE e == [fetched |-> Now, products |-> pages[p]]
  <2>1. pages[p] \in Lists
    BY <1>0, <1>7, LastPage DEF Answered
  <2>2. began[p] \in 1..Now /\ Now - began[p] <= Latency /\ Since(began[p], pages[p])
    BY <1>7 DEF Answered, CacheInv
  <2>3. PagesRead \subseteq 1..Len(pages[p])
    BY <1>7, PagesEnd DEF Answered
  <2>4. e \in Entries
    BY <2>1 DEF TypeOK, Now, Entries
  <2>5. Honest(e)
    <3> SUFFICES ASSUME NEW i \in PagesRead
                 PROVE  \E t \in 1..Now : t <= Now /\ Now - t <= Latency /\ log[t] = pages[p][i]
      BY <1>0 DEF Honest
    <3>1. PICK t \in began[p]..Now : log[t] = pages[p][i]
      BY <2>2, <2>3 DEF Since
    <3>. QED
      BY <1>0, <2>2, <3>1
  <2>6. entry'[p] = e /\ (temps[p] \in Entries => Honest(temps[p]))
    BY <1>0, <1>7 DEF Answered, CacheInv
  <2> HIDE DEF e
  <2>. QED
    BY <1>0, <1>7, <2>4, <2>5, <2>6, MoveInv DEF Answered, CacheInv
<1>8. ASSUME NEW p \in Procs, Create(p) PROVE CacheInv'
  <2>1. CASE Return(p, entry[p].products) /\ UNCHANGED temps
    <3>1. temps' = temps
      BY <2>1
    <3>2. \A e \in Entries : Honest(e) => Honest(e)'
      BY <1>8, HonestStays DEF Create
    <3>. QED
      BY <1>8, <2>1, <3>1, <3>2, ReturnInv DEF Create, CacheInv
  <2>2. CASE temps' = [temps EXCEPT ![p] = Corrupt] /\ Goto(p, "write")
              /\ UNCHANGED <<raw, began, pages, entry, answer>>
    BY <1>0, <1>8, <2>2, MoveInv DEF Create, CacheInv
  <2>. QED
    BY <1>8, <2>1, <2>2 DEF Create
<1>9. ASSUME NEW p \in Procs, GiveUp(p) PROVE CacheInv'
  <2>1. \A e \in Entries : Honest(e) => Honest(e)'
    BY <1>9, HonestStays DEF GiveUp
  <2>. QED
    BY <1>9, <2>1, ReturnInv DEF GiveUp, CacheInv
<1>10. ASSUME NEW p \in Procs, Write(p) PROVE CacheInv'
  BY <1>0, <1>10, MoveInv DEF Write, CacheInv
<1>11. ASSUME NEW p \in Procs, Rename(p) PROVE CacheInv'
  <2>1. \A e \in Entries : Honest(e) => Honest(e)'
    BY <1>11, HonestStays DEF Rename
  <2>2. file' = temps[p] /\ temps[p] \in Entries /\ Honest(temps[p])
    BY <1>11 DEF Rename, Installs, CacheInv
  <2>3. \E e \in Entries : e = file' /\ Honest(e)
    BY <2>2
  <2>4. file' \in Entries => Honest(file)'
    BY <2>1, <2>3
  <2>. QED
    BY <1>11, <2>4, ReturnInv DEF Rename
<1>12. ASSUME NEW p \in Procs, Crash(p) PROVE CacheInv'
  <2>1. \A e \in Entries : Honest(e) => Honest(e)'
    BY <1>12, HonestStays DEF Crash
  <2>. QED
    BY <1>12, <2>1, ReturnInv DEF Crash, CacheInv
<1>13. CASE UNCHANGED vars
  <2>1. \A e \in Entries : Honest(e) => Honest(e)'
    BY <1>13, HonestStays DEF vars
  <2>2. Now' = Now /\ UNCHANGED <<file, temps, pc, raw, began, pages, entry>>
    BY <1>13 DEF vars, local, Now
  <2>3. ASSUME NEW p \in Procs, pc[p] = "asked" PROVE Since(began[p], pages[p])'
    BY <1>13, <2>2, <2>3 DEF vars, Since, CacheInv
  <2>. QED
    BY <2>1, <2>2, <2>3 DEF CacheInv
<1>. QED
  BY <1>1, <1>2, <1>3, <1>4, <1>5, <1>5a, <1>6, <1>7, <1>8, <1>9, <1>10, <1>11, <1>12, <1>13
     DEF Next, Step

-----------------------------------------------------------------------------
IInv == TypeOK /\ CacheInv

\* The strengthened invariant holds in every reachable state.
THEOREM Invariance == Spec => []IInv
<1>1. Init => CacheInv
  BY DEF Init, CacheInv
<1>. QED
  BY <1>1, TypeInit, TypeStep, CacheStep, CacheInvHasEntry, PTL DEF Spec, IInv

\* Every reachable state of the disk and of the processes has its type.
THEOREM TypeCorrect == Spec => []TypeOK
BY Invariance, PTL DEF IInv

\* The entry's file is only ever replaced by a whole entry or removed.
THEOREM NeverHalf == Spec => NeverHalfWritten
<1>1. IInv /\ [Next]_vars => [file' # file => file' \in Entries \cup {Nothing}]_vars
  <2> SUFFICES ASSUME IInv, Next, file' # file PROVE file' \in Entries \cup {Nothing}
    BY DEF vars, disk
  <2>1. PICK p \in Procs : Remove(p) \/ Rename(p)
    BY DEF Next, Step, Tick, Read, Check, Remove, Ask, Page, AskFails, Answered, Create, GiveUp,
           Write, Rename, Crash, disk
  <2>. QED
    BY <2>1 DEF Remove, Rename, Installs, IInv, CacheInv
<1>. QED
  BY <1>1, Invariance, PTL DEF Spec, NeverHalfWritten

-----------------------------------------------------------------------------
\* What the callers are bound to be told, as the promise sees it.
Told == [p \in Procs |-> Decided(p)]

\* A step of process p leaves what the others are told.
LEMMA OthersKeep ==
    ASSUME TypeOK, NEW p \in Procs,
           \A q \in Procs : q # p => /\ pc'[q] = pc[q] /\ entry'[q] = entry[q]
                                     /\ answer'[q] = answer[q]
    PROVE  Told' = [Told EXCEPT ![p] = Decided(p)']
BY DEF Told, Decided

\* A return of v is what p is told.
LEMMA ReturnTells ==
    ASSUME TypeOK, NEW p \in Procs, NEW v, Return(p, v)
    PROVE  Told' = [Told EXCEPT ![p] = v]
<1>1. \A q \in Procs : q # p => pc'[q] = pc[q] /\ entry'[q] = entry[q] /\ answer'[q] = answer[q]
  BY DEF TypeOK, Return
<1>2. Decided(p)' = v
  BY DEF TypeOK, Return, Decided
<1>. QED
  BY <1>1, <1>2, OthersKeep

\* A list that was in force in the last w ticks is within the promise's reach.
LEMMA WithinWindow ==
    ASSUME IInv, NEW e \in Entries, Honest(e), Now - e.fetched <= TTL
    PROVE  e.products \in [PagesRead -> Promise!InForce(TTL + Latency)]
<1>1. e.products \in Lists /\ e.fetched \in Nat /\ Now \in Nat /\ Now = Promise!Now
  BY DEF IInv, TypeOK, Now, Entries, Promise!Now
<1>2. ASSUME NEW i \in PagesRead PROVE e.products[i] \in Promise!InForce(TTL + Latency)
  <2>1. PICK t \in 1..Now : /\ t <= e.fetched /\ e.fetched - t <= Latency
                            /\ log[t] = e.products[i]
    BY DEF Honest
  <2>2. t >= Now - (TTL + Latency)
    BY <1>1, <2>1
  <2>. QED
    BY <1>1, <2>1, <2>2 DEF Promise!InForce
<1>. QED
  BY <1>1, <1>2 DEF Lists

\* Every step of the cache is a step of the promise, or no step of it.
LEMMA StepKeepsPromise == IInv /\ [Next]_vars => [Promise!Next]_(Promise!vars)
<1> SUFFICES ASSUME IInv, [Next]_vars
             PROVE  Promise!Next \/ (UNCHANGED log /\ Told' = Told)
  BY DEF Promise!vars, Told
<1>0. TypeOK /\ CacheInv /\ Told = [p \in Procs |-> Told[p]]
  BY DEF IInv, Told
<1> USE DEF Goto
<1>1. ASSUME NEW p \in Procs, Told' = [Told EXCEPT ![p] = Nothing], UNCHANGED log
      PROVE  Promise!Next
  BY <1>1 DEF Promise!Next, Promise!Forget, Told
<1>2. ASSUME NEW p \in Procs, NEW v \in [PagesRead -> Promise!InForce(TTL + Latency)],
             Told' = [Told EXCEPT ![p] = v], UNCHANGED log
      PROVE  Promise!Next
  BY <1>2 DEF Promise!Next, Promise!Answer, Told
<1>3. ASSUME NEW p \in Procs, Told' = [Told EXCEPT ![p] = Decided(p)]
      PROVE  Told' = Told
  BY <1>3 DEF Told
<1>4. CASE Tick
  <2>1. Told' = Told
    BY <1>4 DEF Tick, Told, Decided, local
  <2>. QED
    BY <1>4, <2>1 DEF Tick, Promise!Next, Promise!Tick, Told
<1>5. ASSUME NEW p \in Procs, Read(p) PROVE Promise!Next
  <2>1. Decided(p)' = Nothing
    BY <1>0, <1>5 DEF Read, Decided, TypeOK
  <2>2. \A q \in Procs : q # p => pc'[q] = pc[q] /\ entry'[q] = entry[q] /\ answer'[q] = answer[q]
    BY <1>0, <1>5 DEF Read, TypeOK
  <2>3. Told' = [Told EXCEPT ![p] = Nothing]
    BY <1>0, <2>1, <2>2, OthersKeep
  <2>. QED
    BY <1>1, <1>5, <2>3 DEF Read
<1>6. ASSUME NEW p \in Procs, UNCHANGED <<log, answer>>,
             \/ /\ pc[p] \notin {"create", "write", "rename"}
                /\ pc' \in {[pc EXCEPT ![p] = l] : l \in {"ask", "remove", "asked"}}
                /\ UNCHANGED entry
             \/ /\ pc[p] \in {"create", "write", "rename"}
                /\ pc' \in {[pc EXCEPT ![p] = l] : l \in {"write", "rename"}}
                /\ UNCHANGED entry
      PROVE  Told' = Told
  <2>1. Decided(p)' = Decided(p)
    BY <1>0, <1>6 DEF Decided, TypeOK
  <2>2. \A q \in Procs : q # p => pc'[q] = pc[q] /\ entry'[q] = entry[q] /\ answer'[q] = answer[q]
    BY <1>0, <1>6 DEF TypeOK
  <2>. QED
    BY <1>0, <1>3, <2>1, <2>2, OthersKeep
<1>7. ASSUME NEW p \in Procs, Return(p, entry[p].products),
             pc[p] \in {"create", "write", "rename"}
      PROVE  Told' = Told
  <2>1. Decided(p) = entry[p].products
    BY <1>7 DEF Decided
  <2>. QED
    BY <1>0, <1>3, <1>7, <2>1, ReturnTells
<1>8. ASSUME NEW p \in Procs, Check(p) PROVE Promise!Next \/ (UNCHANGED log /\ Told' = Told)
  <2>1. CASE Return(p, raw[p].products) /\ ~ Useless(raw[p]) /\ raw[p] # Nothing
    <3>1. raw[p] \in Entries /\ Honest(raw[p]) /\ ~ Expired(raw[p])
      BY <1>0, <2>1 DEF Useless, TypeOK, CacheInv
    <3>2. Now - raw[p].fetched <= TTL
      BY <1>0, <3>1 DEF Expired, Entries, TypeOK, Now
    <3>3. raw[p].products \in [PagesRead -> Promise!InForce(TTL + Latency)]
      BY <3>1, <3>2, WithinWindow
    <3>4. Told' = [Told EXCEPT ![p] = raw[p].products]
      BY <1>0, <2>1, ReturnTells
    <3>. QED
      BY <1>2, <1>8, <3>3, <3>4 DEF Check
  <2>2. CASE pc' \in {[pc EXCEPT ![p] = l] : l \in {"ask", "remove"}} /\ UNCHANGED <<entry, answer>>
    BY <1>6, <1>8, <2>2 DEF Check
  <2>. QED
    BY <1>8, <2>1, <2>2 DEF Check
<1>9. ASSUME NEW p \in Procs, Remove(p) \/ Ask(p) \/ Write(p) PROVE UNCHANGED log /\ Told' = Told
  BY <1>6, <1>9 DEF Remove, Ask, Write
<1>9a. ASSUME NEW p \in Procs, Page(p) PROVE UNCHANGED log /\ Told' = Told
  BY <1>9a DEF Page, Told, Decided
<1>10. ASSUME NEW p \in Procs, AskFails(p) \/ Crash(p) PROVE Promise!Next
  BY <1>0, <1>1, <1>10, ReturnTells DEF AskFails, Crash
<1>11. ASSUME NEW p \in Procs, Answered(p) PROVE Promise!Next
  <2>1. PICK n : n \in PagesRead /\ n + 1 \notin PagesRead /\ n = Len(pages[p])
    BY <1>11 DEF Answered
  <2>2. /\ began[p] \in 1..Now /\ Now - began[p] <= Latency /\ Now \in Nat
        /\ Since(began[p], pages[p])
    BY <1>0, <1>11 DEF Answered, CacheInv, TypeOK, Now
  <2>3. pages[p] \in Lists
    BY <1>0, <2>1, LastPage DEF TypeOK
  <2>4. ASSUME NEW i \in PagesRead PROVE pages[p][i] \in Promise!InForce(TTL + Latency)
    <3>1. i \in 1..Len(pages[p])
      BY <2>1, PagesEnd
    <3>2. PICK t \in began[p]..Now : log[t] = pages[p][i]
      BY <2>2, <3>1 DEF Since
    <3>3. t \in 1..Now /\ t >= Now - (TTL + Latency)
      BY <2>2, <3>2
    <3>. QED
      BY <3>2, <3>3 DEF Promise!InForce, Promise!Now, Now
  <2>5. pages[p] \in [PagesRead -> Promise!InForce(TTL + Latency)]
    BY <2>3, <2>4 DEF Lists
  <2>6. Decided(p)' = pages[p]
    BY <1>0, <1>11 DEF Answered, Decided, TypeOK
  <2>7. \A q \in Procs : q # p => pc'[q] = pc[q] /\ entry'[q] = entry[q] /\ answer'[q] = answer[q]
    BY <1>0, <1>11 DEF Answered, TypeOK
  <2>8. Told' = [Told EXCEPT ![p] = pages[p]]
    BY <1>0, <2>6, <2>7, OthersKeep
  <2>. QED
    BY <1>2, <1>11, <2>5, <2>8 DEF Answered
<1>12. ASSUME NEW p \in Procs, Create(p) PROVE UNCHANGED log /\ Told' = Told
  BY <1>6, <1>7, <1>12 DEF Create
<1>13. ASSUME NEW p \in Procs, GiveUp(p) \/ Rename(p) PROVE UNCHANGED log /\ Told' = Told
  BY <1>7, <1>13 DEF GiveUp, Rename
<1>14. CASE UNCHANGED vars
  BY <1>14 DEF vars, local, Told, Decided
<1>. QED
  BY <1>4, <1>5, <1>8, <1>9, <1>9a, <1>10, <1>11, <1>12, <1>13, <1>14 DEF Next, Step

\* The cache implements bounded staleness: nobody is answered with a list that
\* was not in force within the ttl and the time of one fetch.
THEOREM PromiseKept == Spec => KeepsPromise
<1>1. Init => Promise!Init
  BY DEF Init, Promise!Init, Decided
<1>. QED
  BY <1>1, Invariance, StepKeepsPromise, PTL DEF Spec, KeepsPromise, Promise!Spec
=============================================================================
