---------------------------- MODULE PricingCache ----------------------------
(***************************************************************************)
(* The disk cache of price lists (internal/pricing/cache.go), for one key, *)
(* used by several processes at once and without a lock.  A call reads the *)
(* entry, may remove it, may ask the price source, which has the list read *)
(* page by page (internal/pricing/aws.go), and replaces the entry through  *)
(* a temporary file and a rename; each file operation and each page is a   *)
(* step of its own, may fail, and the process may die between any two.     *)
(***************************************************************************)
EXTENDS Integers, Sequences, FiniteSets

CONSTANTS
    Procs,      \* processes sharing the cache directory
    Prices,     \* what the provider may charge
    Pages,      \* the pages of the list the key asks for
    MaxPages,   \* maxPages
    TTL,        \* Cache.ttl, in ticks
    Latency,    \* how long a call of the price source may take, in ticks
    Nothing,    \* no list, no entry
    Corrupt,    \* bytes that are no entry
    MaxTicks    \* bound: the clock

\* The pages GetProducts reads, and a list: what each of them says.  The list
\* is cut after maxPages of them.
PagesRead == 1..(IF Pages < MaxPages THEN Pages ELSE MaxPages)
Lists == [PagesRead -> Prices]

\* What an entry's file holds (cacheEntry): a stamp and a list.
Entries == [fetched : 1..(MaxTicks + 1), products : Lists]

ASSUME CacheAssumption ==
    /\ TTL \in Nat /\ Latency \in Nat /\ MaxTicks \in Nat
    /\ Pages \in Nat \ {0} /\ MaxPages \in Nat \ {0}
    /\ Nothing \notin Entries /\ Corrupt \notin Entries

VARIABLES
    log,     \* log[t]: the prices in force at tick t; Len(log) is the present
    file,    \* the entry's file: Nothing, Corrupt or an entry
    temps,   \* temps[p]: p's last temporary file: Nothing, Corrupt (half written), an entry
    pc,      \* pc[p]: where p is in GetProducts
    raw,     \* raw[p]: the bytes p has read
    began,   \* began[p]: when p called the price source
    pages,   \* pages[p]: the pages p has read, in order
    entry,   \* entry[p]: what p fetched
    answer   \* answer[p]: what p's last call returned

disk  == <<file, temps>>
local == <<pc, raw, began, pages, entry>>
vars  == <<log, disk, local, answer>>

Now == Len(log)

\* A cache directory may hold anything an earlier run or a crash left.
Init ==
    /\ log \in {<<p>> : p \in Prices}
    /\ file \in {Nothing, Corrupt}
    /\ temps = [p \in Procs |-> Nothing]
    /\ pc = [p \in Procs |-> "idle"]
    /\ raw = [p \in Procs |-> Nothing]
    /\ began = [p \in Procs |-> 0]
    /\ pages = [p \in Procs |-> <<>>]
    /\ entry = [p \in Procs |-> Nothing]
    /\ answer = [p \in Procs |-> Nothing]

Goto(p, label) == pc' = [pc EXCEPT ![p] = label]

\* The call returns v, and its locals are gone.
Return(p, v) ==
    /\ answer' = [answer EXCEPT ![p] = v]
    /\ pc' = [pc EXCEPT ![p] = "idle"]
    /\ raw' = [raw EXCEPT ![p] = Nothing]
    /\ began' = [began EXCEPT ![p] = 0]
    /\ pages' = [pages EXCEPT ![p] = <<>>]
    /\ entry' = [entry EXCEPT ![p] = Nothing]

-----------------------------------------------------------------------------
\* GetProducts is called, and reads the file; a read error counts as no file.
Read(p) ==
    /\ pc[p] = "idle"
    /\ Goto(p, "check")
    /\ \E bytes \in {file, Nothing} : raw' = [raw EXCEPT ![p] = bytes]
    /\ answer' = [answer EXCEPT ![p] = Nothing]
    /\ UNCHANGED <<log, disk, began, pages, entry>>

\* time.Since(entry.FetchedAt) > ttl
Expired(e) == Now - e.fetched > TTL

\* Bytes that do not parse, or an entry past its ttl.
Useless(bytes) == IF bytes = Corrupt THEN TRUE ELSE Expired(bytes)

\* The bytes are examined: a hit returns them.
Check(p) ==
    /\ pc[p] = "check"
    /\ \/ /\ raw[p] = Nothing
          /\ Goto(p, "ask")
          /\ UNCHANGED <<raw, began, pages, entry, answer>>
       \/ /\ raw[p] # Nothing
          /\ Useless(raw[p])
          /\ Goto(p, "remove")
          /\ raw' = [raw EXCEPT ![p] = Nothing]
          /\ UNCHANGED <<began, pages, entry, answer>>
       \/ /\ raw[p] # Nothing
          /\ ~ Useless(raw[p])
          /\ Return(p, raw[p].products)
    /\ UNCHANGED <<log, disk>>

\* The file is removed by its name, whatever it holds by now; a failure is
\* logged only.
Remove(p) ==
    /\ pc[p] = "remove"
    /\ file' \in {file, Nothing}
    /\ Goto(p, "ask")
    /\ UNCHANGED <<log, temps, raw, began, pages, entry, answer>>

\* The price source is asked (Client.GetProducts) ...
Ask(p) ==
    /\ pc[p] = "ask"
    /\ began' = [began EXCEPT ![p] = Now]
    /\ pages' = [pages EXCEPT ![p] = <<>>]
    /\ Goto(p, "asked")
    /\ UNCHANGED <<log, disk, raw, entry, answer>>

\* ... and serves page after page, each with the prices of its moment ...
Page(p) ==
    /\ pc[p] = "asked"
    /\ Len(pages[p]) + 1 \in PagesRead
    /\ pages' = [pages EXCEPT ![p] = Append(@, log[Now])]
    /\ UNCHANGED <<log, disk, pc, raw, began, entry, answer>>

\* A fault: the pages before the error are taken for the list.
AskFailsPartly(p) ==
    /\ pc[p] = "asked"
    /\ entry' = [entry EXCEPT ![p] = [fetched |-> Now, products |-> pages[p]]]
    /\ Goto(p, "create")
    /\ began' = [began EXCEPT ![p] = 0]
    /\ pages' = [pages EXCEPT ![p] = <<>>]
    /\ UNCHANGED <<log, disk, raw, answer>>

\* ... or a request fails, or the context is cancelled between two: what was
\* read is discarded, the error is the call's, and nothing is written ...
AskFails(p) ==
    /\ pc[p] = "asked"
    /\ Return(p, Nothing)
    /\ UNCHANGED <<log, disk>>

\* ... or the last page is there, or the maxPages-th, and the entry is stamped.
Answered(p) ==
    /\ pc[p] = "asked"
    /\ Len(pages[p]) \in PagesRead /\ Len(pages[p]) + 1 \notin PagesRead
    /\ entry' = [entry EXCEPT ![p] = [fetched |-> Now, products |-> pages[p]]]
    /\ Goto(p, "create")
    /\ began' = [began EXCEPT ![p] = 0]
    /\ pages' = [pages EXCEPT ![p] = <<>>]
    /\ UNCHANGED <<log, disk, raw, answer>>

-----------------------------------------------------------------------------
\* A fault: the entry's own file is created and filled in place.
CreateInPlace(p) ==
    /\ pc[p] = "create"
    /\ file' = Corrupt
    /\ temps' = [temps EXCEPT ![p] = Corrupt]
    /\ Goto(p, "write")
    /\ UNCHANGED <<log, raw, began, pages, entry, answer>>

\* writeEntry.  A temporary file is created; without one the write is given up.
Create(p) ==
    /\ pc[p] = "create"
    /\ \/ /\ temps' = [temps EXCEPT ![p] = Corrupt]
          /\ Goto(p, "write")
          /\ UNCHANGED <<raw, began, pages, entry, answer>>
       \/ /\ Return(p, entry[p].products)
          /\ UNCHANGED temps
    /\ UNCHANGED <<log, file>>

\* A write, close or rename failed: the temporary file is removed, unless that
\* fails too, which nobody is told.
GiveUp(p) ==
    /\ pc[p] \in {"write", "rename"}
    /\ temps' \in {temps, [temps EXCEPT ![p] = Nothing]}
    /\ Return(p, entry[p].products)
    /\ UNCHANGED <<log, file>>

\* The entry is written to the temporary file, and the file closed.
Write(p) ==
    /\ pc[p] = "write"
    /\ temps' = [temps EXCEPT ![p] = entry[p]]
    /\ Goto(p, "rename")
    /\ UNCHANGED <<log, file, raw, began, pages, entry, answer>>

\* A fault: the stamp is the time of the rename.
InstallsLate(p) == [entry[p] EXCEPT !.fetched = Now]

\* What the rename puts in the entry's place: the temporary file.
Installs(p) == temps[p]

Rename(p) ==
    /\ pc[p] = "rename"
    /\ file' = Installs(p)
    /\ temps' = [temps EXCEPT ![p] = Nothing]
    /\ Return(p, entry[p].products)
    /\ UNCHANGED log

\* The process dies.  A temporary file it had stays in the directory, under a
\* name nobody will look at again.
Crash(p) ==
    /\ pc[p] # "idle"
    /\ Return(p, Nothing)
    /\ UNCHANGED <<log, disk>>

\* Time passes, and the provider may change its prices.  A call of the price
\* source does not outlast its deadline.
Tick ==
    /\ Now <= MaxTicks
    /\ \A p \in Procs : pc[p] = "asked" => Now - began[p] < Latency
    /\ \E v \in Prices : log' = Append(log, v)
    /\ UNCHANGED <<disk, local, answer>>

Step(p) ==
    \/ Check(p) \/ Remove(p) \/ Ask(p) \/ Page(p) \/ AskFails(p) \/ Answered(p)
    \/ Create(p) \/ GiveUp(p) \/ Write(p) \/ Rename(p)

Next == Tick \/ \E p \in Procs : Read(p) \/ Step(p) \/ Crash(p)

Spec == Init /\ [][Next]_vars

-----------------------------------------------------------------------------
Labels == {"idle", "check", "remove", "ask", "asked", "create", "write", "rename"}

TypeOK ==
    /\ log \in Seq(Prices) /\ Len(log) \in 1..(MaxTicks + 1)
    /\ file \in Entries \cup {Nothing, Corrupt}
    /\ temps \in [Procs -> Entries \cup {Nothing, Corrupt}]
    /\ pc \in [Procs -> Labels]
    /\ raw \in [Procs -> Entries \cup {Nothing, Corrupt}]
    /\ began \in [Procs -> Nat]
    /\ pages \in [Procs -> Seq(Prices)]
    /\ entry \in [Procs -> Entries \cup {Nothing}]
    /\ answer \in [Procs -> Lists \cup {Nothing}]

\* The answer a process is bound to give: once the source has answered, the
\* outcome of the write no longer matters.
Decided(p) == IF pc[p] \in {"create", "write", "rename"} THEN entry[p].products ELSE answer[p]

Promise == INSTANCE BoundedStaleness WITH
    Callers <- Procs, Parts <- PagesRead, Window <- TTL + Latency, answer <- [p \in Procs |-> Decided(p)]

\* The cache keeps its promise: whatever the processes overwrite, remove or
\* leave half done, nobody is answered with a part of a list, nor with prices
\* that were not in force within the ttl plus the time of one fetch, also when
\* an old entry is renamed over a younger one and when prices change between
\* two pages.
KeepsPromise == Promise!Spec

\* "a reader never observes a half-written file" (Cache's comment): what
\* replaces the entry is whole.
NeverHalfWritten == [][file' # file => file' \in Entries \cup {Nothing}]_vars
=============================================================================
