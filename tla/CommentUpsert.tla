---------------------------- MODULE CommentUpsert ----------------------------
(***************************************************************************)
(* The runs of `oracle pr-check` on one pull request (cmd/oracle/main.go)  *)
(* and the upsert of its comment (internal/github/comments.go): a run      *)
(* lists the comments page by page, picks the most recent one that carries *)
(* the marker, and updates it or posts another.  Runs overlap, people      *)
(* comment, edit and delete meanwhile, and any request or answer may be    *)
(* lost.                                                                   *)
(***************************************************************************)
EXTENDS Integers, Sequences

CONSTANTS
    Runs,       \* the runs, one or more for each push
    PerPage,    \* perPage
    MaxPages,   \* maxPagesGitHub
    MaxId,      \* bound: comments people make
    MaxDeleted, \* bound: comments people delete
    MaxEdited,  \* bound: edits people make
    Rendered,   \* the marker diff.RenderMarkdown puts in the footer
    Marker,     \* the marker of the --marker flag
    Oversize    \* the runs whose body capBody has to truncate

ASSUME UpsertAssumption ==
    /\ PerPage \in Nat \ {0} /\ MaxPages \in Nat \ {0}
    /\ MaxId \in Nat /\ MaxDeleted \in Nat /\ MaxEdited \in Nat
    /\ Oversize \subseteq Runs
    /\ "people" \notin Runs

VARIABLES
    thread,     \* the comments, in the order GitHub lists them
    created,    \* comments ever made: the last id
    clock,      \* what updated_at is taken from
    edited,     \* edits people have made
    pc,         \* where each run is
    page,       \* listComments: the page asked for next
    matches,    \* the comments listed so far that carry the marker
    target,     \* the comment to update, as it was listed
    output,     \* history: runs that wrote their Markdown
    exit,       \* each run's exit code
    wrote,      \* history: runs whose comment reached the thread
    steady,     \* history: ids that carried the marker ever since a run began to list
    carried,    \* history: ids that carried it at some time while the run listed
    since,      \* history: the clock when it began
    shifted     \* history: whether a comment has been deleted since

github == <<thread, created, clock, edited>>
watch  == <<steady, carried, since, shifted>>
run    == <<page, matches, target>>
vars   == <<github, pc, run, output, exit, wrote, watch>>

\* by: who made it; text: the run that wrote the body, or people.
Comments == [id : Nat, by : {"bot", "people"}, text : Runs \cup {"people"},
             marked : BOOLEAN, updated : Nat]
Comment(id, by, text, marked, updated) ==
    [id |-> id, by |-> by, text |-> text, marked |-> marked, updated |-> updated]
NoComment == Comment(0, "people", "people", FALSE, 0)
Pending == 9        \* no exit code yet

\* A thread of people's comments; some quote or paste one of ours.
Init ==
    /\ \E n \in 0..MaxId, quotes \in SUBSET (1..MaxId) :
          /\ created = n
          /\ thread = [i \in 1..n |->
                Comment(i, "people", "people", i \in quotes, 0)]
    /\ clock = 0 /\ edited = 0
    /\ pc = [r \in Runs |-> "plan"]
    /\ page = [r \in Runs |-> 1]
    /\ matches = [r \in Runs |-> {}]
    /\ target = [r \in Runs |-> NoComment]
    /\ output = {} /\ wrote = {}
    /\ exit = [r \in Runs |-> Pending]
    /\ steady = [r \in Runs |-> {}] /\ carried = [r \in Runs |-> {}]
    /\ since = [r \in Runs |-> 0]
    /\ shifted = [r \in Runs |-> FALSE]

Marked(t) == {t[i].id : i \in {j \in DOMAIN t : t[j].marked}}

Exit(r, code) == pc' = [pc EXCEPT ![r] = "done"] /\ exit' = [exit EXCEPT ![r] = code]

-----------------------------------------------------------------------------
\* runPRCheck up to the rendered Markdown: help was asked for, bad flags or plan, no
\* prices, or done.
Prepare(r) ==
    /\ pc[r] = "plan"
    /\ \/ pc' = [pc EXCEPT ![r] = "help"] /\ exit' = [exit EXCEPT ![r] = 0]
       \/ Exit(r, 1)
       \/ Exit(r, 2)
       \/ pc' = [pc EXCEPT ![r] = "output"] /\ UNCHANGED exit
    /\ UNCHANGED <<github, run, output, wrote, watch>>

\* The Markdown goes to a file or stdout.
Output(r) ==
    /\ pc[r] = "output"
    /\ \/ Exit(r, 3) /\ UNCHANGED output
       \/ /\ output' = output \cup {r}
          /\ pc' = [pc EXCEPT ![r] = "flags"] /\ UNCHANGED exit
    /\ UNCHANGED <<github, run, wrote, watch>>

\* Without --post that is all; runPRCheckPost looks at its own flags only now.
Flags(r) ==
    /\ pc[r] = "flags"
    /\ \/ Exit(r, 0) /\ UNCHANGED watch
       \/ Exit(r, 1) /\ UNCHANGED watch
       \/ /\ pc' = [pc EXCEPT ![r] = "list"] /\ UNCHANGED exit
          /\ steady' = [steady EXCEPT ![r] = Marked(thread)]
          /\ carried' = [carried EXCEPT ![r] = Marked(thread)]
          /\ since' = [since EXCEPT ![r] = clock]
          /\ shifted' = [shifted EXCEPT ![r] = FALSE]
    /\ UNCHANGED <<github, run, output, wrote>>

\* A fault: page 1 is taken for page 0 (every page starts one page too late).
BatchLate(p) == {i \in DOMAIN thread : p * PerPage < i /\ i <= (p + 1) * PerPage}

\* The places of the thread that page p holds now.
Batch(p) == {i \in DOMAIN thread : (p - 1) * PerPage < i /\ i <= p * PerPage}

\* A fault: a full page is taken for the last one.
ShortNot(p) == TRUE

\* len(batch) < perPage
Short(p) == Len(thread) < p * PerPage

\* Faults of the search: every comment counts as ours; the first is picked.
MatchesAll(p) == {thread[i] : i \in Batch(p)}
PickFirst(S) == CHOOSE m \in S : \A x \in S : m.id <= x.id

MatchesOn(p) == {thread[i] : i \in {j \in Batch(p) : thread[j].marked}}

\* pickMostRecentMatch: the latest update, the first listed of equals.
PickMostRecent(S) ==
    CHOOSE m \in S : \A x \in S :
        m.updated > x.updated \/ (m.updated = x.updated /\ m.id <= x.id)

\* One iteration of listComments, and the choice after the last.
List(r) ==
    /\ pc[r] = "list"
    /\ LET found == matches[r] \cup MatchesOn(page[r])
       IN /\ matches' = [matches EXCEPT ![r] = found]
          /\ IF ~ (Short(page[r]) \/ page[r] = MaxPages)
             THEN page' = [page EXCEPT ![r] = @ + 1] /\ UNCHANGED <<pc, target>>
             ELSE /\ UNCHANGED page
                  /\ IF found = {}
                     THEN pc' = [pc EXCEPT ![r] = "post"] /\ UNCHANGED target
                     ELSE /\ pc' = [pc EXCEPT ![r] = "update"]
                          /\ target' = [target EXCEPT ![r] = PickMostRecent(found)]
    /\ UNCHANGED <<github, output, exit, wrote, watch>>

\* Faults of classifyGithubError: a code action.yml does not list, or another kind's.
GithubErrOther == 5
GithubErrAsInput == 1

GithubErr == 4

\* A request is lost or refused: any GitHub error ends the run.
Fail(r) ==
    /\ pc[r] \in {"list", "update", "post"}
    /\ Exit(r, GithubErr)
    /\ UNCHANGED <<github, run, output, wrote, watch>>

\* A request that reached GitHub is answered, or its answer is lost.
Answered(r) == Exit(r, 0) \/ Exit(r, GithubErr)

\* The body of a run: the renderer's own marker, unless truncation cut it off.
Carries(r) == Rendered = Marker /\ r \notin Oversize

Tick == clock' \in {clock, clock + 1}

\* The marks that were there all the while, and those a run that lists may meet.
Rest(t) == [r \in Runs |-> steady[r] \cap Marked(t)]
Ever(t) == [r \in Runs |->
    IF pc[r] = "list" THEN carried[r] \cup Marked(t) ELSE carried[r]]

\* postComment
Post(r) ==
    /\ pc[r] = "post"
    /\ Tick
    /\ created' = created + 1
    /\ thread' = Append(thread, Comment(created', "bot", r, Carries(r), clock'))
    /\ carried' = Ever(thread')
    /\ wrote' = wrote \cup {r}
    /\ Answered(r)
    /\ UNCHANGED <<edited, run, output, steady, since, shifted>>

\* The body of a comment is replaced, whoever made it and whatever it holds.
Rewrite(places, text, marked) ==
    /\ Tick
    /\ thread' = [i \in DOMAIN thread |->
          IF i \in places
          THEN Comment(thread[i].id, thread[i].by, text, marked, clock')
          ELSE thread[i]]
    /\ steady' = Rest(thread')
    /\ carried' = Ever(thread')
    /\ UNCHANGED <<created, run, output, since, shifted>>

\* A fault: the comment is found by its place in the thread, not by its id.
HitByPlace(r) == {i \in DOMAIN thread : i = target[r].id}

Hit(r) == {i \in DOMAIN thread : thread[i].id = target[r].id}

\* updateComment: a PATCH of the id, unconditional.
Update(r) ==
    /\ pc[r] = "update" /\ Hit(r) # {}
    /\ Rewrite(Hit(r), r, Carries(r))
    /\ wrote' = wrote \cup {r}
    /\ Answered(r)
    /\ UNCHANGED edited

\* The comment is gone by now: 404.
Missing(r) ==
    /\ pc[r] = "update" /\ Hit(r) = {}
    /\ Exit(r, GithubErr)
    /\ UNCHANGED <<github, run, output, wrote, watch>>

-----------------------------------------------------------------------------
\* People comment, now and then quoting one of ours, edit, and delete.
Say ==
    /\ created < MaxId
    /\ Tick
    /\ created' = created + 1
    /\ \E quote \in BOOLEAN :
          thread' = Append(thread, Comment(created', "people", "people", quote, clock'))
    /\ carried' = Ever(thread')
    /\ UNCHANGED <<edited, pc, run, output, exit, wrote, steady, since, shifted>>

\* An author or a maintainer rewrites a comment, one of ours too: the marker may go,
\* stay or come.
Edit ==
    /\ edited < MaxEdited
    /\ \E k \in DOMAIN thread, marked \in BOOLEAN : Rewrite({k}, "people", marked)
    /\ edited' = edited + 1
    /\ UNCHANGED <<pc, exit, wrote>>

Without(k) == [i \in 1..(Len(thread) - 1) |-> IF i < k THEN thread[i] ELSE thread[i + 1]]

Delete ==
    /\ created - Len(thread) < MaxDeleted
    /\ \E k \in DOMAIN thread : thread' = Without(k)
    /\ steady' = Rest(thread')
    /\ shifted' = [r \in Runs |-> TRUE]
    /\ UNCHANGED <<created, clock, edited, pc, run, output, exit, wrote, carried, since>>

Step(r) ==
    Prepare(r) \/ Output(r) \/ Flags(r) \/ List(r) \/ Post(r) \/ Update(r) \/ Missing(r)

Next == (\E r \in Runs : Step(r) \/ Fail(r)) \/ Say \/ Edit \/ Delete

Spec == Init /\ [][Next]_vars

-----------------------------------------------------------------------------
TypeOK ==
    /\ thread \in Seq(Comments) /\ created \in Nat /\ clock \in Nat
    /\ edited \in Nat
    /\ pc \in [Runs -> {"plan", "help", "output", "flags", "list", "update", "post", "done"}]
    /\ page \in [Runs -> Nat]
    /\ matches \in [Runs -> SUBSET Comments]
    /\ target \in [Runs -> Comments]
    /\ output \subseteq Runs /\ wrote \subseteq Runs
    /\ exit \in [Runs -> {0, 1, 2, 3, 4, Pending}]
    /\ steady \in [Runs -> SUBSET Nat] /\ carried \in [Runs -> SUBSET Nat]
    /\ since \in [Runs -> Nat]
    /\ shifted \in [Runs -> BOOLEAN]

\* "If no such comment exists, posts a new one": a run about to post has been
\* through every page, so no comment carried the marker all the while, unless a
\* deletion shifted the pages or it is beyond the last page the loop reads.
PostsOnlyIfNone ==
    \A r \in Runs : pc[r] = "post" /\ ~ shifted[r] =>
        \A i \in DOMAIN thread : thread[i].id \in steady[r] => i > MaxPages * PerPage

\* "Picks the one with the most recent UpdatedAt": of the comments nobody
\* touched since the listing began, none is more recent than the target.
NewestIsPicked ==
    \A r \in Runs : pc[r] = "update" /\ ~ shifted[r] =>
        \A i \in DOMAIN thread :
            (/\ thread[i].id \in steady[r] /\ i <= MaxPages * PerPage
             /\ thread[i].updated < since[r])
                => thread[i].updated <= target[r].updated

\* "Any comment containing it is considered ours", and no other: a run replaces only
\* a comment that carried the marker at some time while it listed, whatever people
\* and other runs write, edit and delete.  It need not carry it still: one that is
\* rewritten between the listing and the update is overwritten all the same.
OthersStay ==
    [][\A i \in DOMAIN thread, j \in DOMAIN thread' :
          (/\ thread'[j].id = thread[i].id /\ thread'[j] # thread[i]
           /\ thread'[j].text \in Runs) => thread[i].id \in carried[thread'[j].text]]_vars

\* The exit code tells what was done (main.go: 1 input, 2 pricing, 3 output, 4
\* github): unless help was asked for, success means that the Markdown is written
\* and the comment, if one was wanted, is there; a failure before GitHub means it
\* is not, and no comment appears without its Markdown.  Asking for help succeeds
\* as well and does nothing.
ExitTells ==
    \A r \in Runs :
        /\ exit[r] \in {1, 2, 3} => r \notin wrote
        /\ exit[r] \in {2, 3} => r \notin output
        /\ pc[r] = "help" => r \notin output \cup wrote
        /\ (exit[r] = 0 /\ pc[r] # "help") \/ exit[r] = 4 \/ r \in wrote => r \in output
        /\ exit[r] = 0 /\ r \notin wrote => target[r] = NoComment /\ matches[r] = {} /\ page[r] = 1

-----------------------------------------------------------------------------
\* docs/v2-guide.md:23: "subsequent pushes update that comment in place instead
\* of stacking new ones".
NeverStacks ==
    \A r \in Runs : pc[r] = "post" /\ ~ shifted[r] =>
        \A i \in DOMAIN thread :
            thread[i].by = "bot" /\ thread[i].updated < since[r] => i > MaxPages * PerPage
=============================================================================
