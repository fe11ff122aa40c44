----------------------------- MODULE QueryCache -----------------------------
(***************************************************************************)
(* One entry of the browser's query cache and one mutation of its own.     *)
(* Every page of the web client shows what its queries hold, and a         *)
(* mutation names the queries whose entries it makes out of date.  The     *)
(* cache is the library's (TanStack Query, with the options of             *)
(* QueryProvider): an entry is fetched when a page mounts it and it is     *)
(* missing, older than thirty seconds or invalidated; an invalidation      *)
(* fetches at once what is on the screen and only marks the rest.          *)
(*                                                                         *)
(* The pages, their queries and what each mutation writes and tells are    *)
(* parameters.  A behaviour picks one pair of a query and a mutation that  *)
(* alters its answer, and asks when the user sees the work just done.      *)
(***************************************************************************)
EXTENDS Naturals

CONSTANTS
  Query,     \* families of keys: "parent_bookings" stands for all its pages
  Page,      \* pages, named for the component that makes their queries
  Op,        \* mutations, one for each page that makes them
  RoleOf,    \* [Page -> Role]: the shell a page is in
  Shows,     \* [Page -> SUBSET Query]: what it mounts
  Frame,     \* [Page -> SUBSET Query]: what the shell around it mounts
  Home,      \* [Op -> Page]
  Alters,    \* [Op -> SUBSET Query]: the answers its write changes
  Tells,     \* [Op -> SUBSET Query]: what it invalidates
  Always,    \* the mutations that do so on failure too (onSettled)
  Listed,    \* queries with a page, a filter or a condition the user can change
  Polled,    \* queries with a refetchInterval
  Gaps,      \* [Op -> SUBSET Query]: what is altered and not told, by name
  MaxCalls   \* bound: how often the mutation is made

ASSUME CacheAssumptions ==
  /\ MaxCalls \in Nat
  /\ \A o \in Op : Alters[o] \subseteq Tells[o] \cup Gaps[o]

VARIABLES
  watch,  \* the query, the mutation and the pages that matter to them
  page,   \* the page that is open
  look,   \* does it ask for the entry with the watched parameters
  entry,  \* held: is there data; mark: what the cache thinks of it
  fetch,  \* the request that is in flight, and whether its answer is older than a write
  call,   \* the latest call of the mutation, in the browser and at the server
  made,   \* how many calls were made
  behind, \* the data held lacks a write of this user
  excused \* ... and the page does not hear of it, or the cache lost the mark

cacheVars == <<watch, page, look, entry, fetch, call, made, behind, excused>>

(* The page of the mutation, one other page that shows the query, one with
   a shell that does and one without stand for all the pages of a role. *)
OneOf(S) == IF S = {} THEN {} ELSE {CHOOSE p \in S : TRUE}
Others(o) == {p \in Page : RoleOf[p] = RoleOf[Home[o]] /\ p # Home[o]}
Near(q, o) ==
  {Home[o]} \cup OneOf({p \in Others(o) : q \in Shows[p]})
            \cup OneOf({p \in Others(o) : q \in Frame[p]})
            \cup OneOf({p \in Others(o) : q \notin Shows[p] \cup Frame[p]})

Watches == UNION {{[query |-> q, op |-> o, pages |-> Near(q, o)] : q \in Alters[o]} : o \in Op}

query == watch.query
op == watch.op
Framed(p) == query \in Frame[p]
Mounts(p) == query \in Shows[p]
Observed == Framed(page) \/ (Mounts(page) /\ look)
IsTold == query \in Tells[op]
IsGap == query \in Gaps[op]
Stale == ~entry.held \/ entry.mark # "fresh"

-----------------------------------------------------------------------------
NoFetch == [stage |-> "idle", late |-> FALSE]
NewFetch == [stage |-> "sent", late |-> FALSE]
NoData == [held |-> FALSE, mark |-> "fresh"]

CacheStart(w) ==
  /\ watch = w /\ page \in w.pages /\ look = TRUE
  /\ entry = NoData
  /\ fetch = IF w.query \in Frame[page] \cup Shows[page] THEN NewFetch ELSE NoFetch
  /\ call = [client |-> "none", server |-> "none"] /\ made = 0
  /\ behind = FALSE /\ excused = FALSE

CacheInit == \E w \in Watches : CacheStart(w)

(* An observer mounts: what is stale and not on its way is fetched. *)
FetchIf(mounted) == fetch' = IF mounted /\ Stale /\ fetch.stage = "idle" THEN NewFetch ELSE fetch

Navigate(p) ==
  /\ p # page /\ page' = p /\ look' = TRUE
  /\ FetchIf(Mounts(p) \/ (Framed(p) /\ ~Framed(page)))
  /\ UNCHANGED <<watch, entry, call, made, behind, excused>>

(* Another page of the list, another filter, and back. *)
LookAway ==
  /\ Mounts(page) /\ query \in Listed /\ look
  /\ look' = FALSE
  /\ UNCHANGED <<watch, page, entry, fetch, call, made, behind, excused>>

LookBack ==
  /\ Mounts(page) /\ ~look
  /\ look' = TRUE /\ FetchIf(TRUE)
  /\ UNCHANGED <<watch, page, entry, call, made, behind, excused>>

(* The connection comes back, or the interval of a polled query is over. *)
Refetch ==
  /\ Observed /\ fetch.stage = "idle"
  /\ Stale \/ query \in Polled
  /\ fetch' = NewFetch
  /\ UNCHANGED <<watch, page, look, entry, call, made, behind, excused>>

(* The page is loaded anew: the cache is gone and so is whoever waited. *)
Reload ==
  /\ entry' = NoData
  /\ look' = TRUE
  /\ fetch' = IF Framed(page) \/ Mounts(page) THEN NewFetch ELSE NoFetch
  /\ call' = [call EXCEPT !.client = IF call.client \in {"waiting", "telling"} THEN "done" ELSE @]
  /\ behind' = FALSE /\ excused' = FALSE
  /\ UNCHANGED <<watch, page, made>>

(* staleTime and gcTime of QueryProvider. *)
Age ==
  /\ entry.held /\ entry.mark = "fresh"
  /\ entry' = [entry EXCEPT !.mark = "aged"]
  /\ UNCHANGED <<watch, page, look, fetch, call, made, behind, excused>>

Collect ==
  /\ ~Observed /\ fetch.stage = "idle" /\ entry.held /\ entry.mark # "fresh"
  /\ entry' = NoData /\ behind' = FALSE /\ excused' = FALSE
  /\ UNCHANGED <<watch, page, look, fetch, call, made>>

-----------------------------------------------------------------------------
FetchReads ==
  /\ fetch.stage = "sent"
  /\ fetch' = [stage |-> "read", late |-> FALSE]
  /\ UNCHANGED <<watch, page, look, entry, call, made, behind, excused>>

(* An answer that arrives is believed, whatever happened since it was read. *)
FetchLands ==
  /\ fetch.stage = "read"
  /\ entry' = [held |-> TRUE, mark |-> "fresh"]
  /\ fetch' = NoFetch
  /\ behind' = fetch.late /\ excused' = (excused /\ fetch.late)
  /\ UNCHANGED <<watch, page, look, call, made>>

(* The request and its one retry have failed. *)
FetchFails ==
  /\ fetch.stage # "idle"
  /\ entry' = [entry EXCEPT !.mark = "failed"]
  /\ fetch' = NoFetch
  /\ UNCHANGED <<watch, page, look, call, made, behind, excused>>

-----------------------------------------------------------------------------
Mutate ==
  /\ page = Home[op] /\ made < MaxCalls
  /\ call.client \in {"none", "done"} /\ call.server # "working"
  /\ call' = [client |-> "waiting", server |-> "working"]
  /\ made' = made + 1
  /\ UNCHANGED <<watch, page, look, entry, fetch, behind, excused>>

Commit ==
  /\ call.server = "working"
  /\ call' = [call EXCEPT !.server = "did"]
  /\ fetch' = [fetch EXCEPT !.late = fetch.stage = "read"]
  /\ behind' = entry.held
  /\ excused' = (call.client # "waiting")
  /\ UNCHANGED <<watch, page, look, entry, made>>

Refuse ==
  /\ call.server = "working"
  /\ call' = [call EXCEPT !.server = "refused"]
  /\ UNCHANGED <<watch, page, look, entry, fetch, made, behind, excused>>

(* An error is answered although something was written: a charge that was
   declined leaves a failed payment, a message is stored and not marked as
   read, or the database's own answer is lost.  A page that tells only of
   what succeeded cannot know. *)
FailPartDone ==
  /\ call.server = "working"
  /\ call' = [call EXCEPT !.server = "failed"]
  /\ fetch' = [fetch EXCEPT !.late = fetch.stage = "read"]
  /\ behind' = entry.held
  /\ excused' = (call.client # "waiting" \/ op \notin Always)
  /\ UNCHANGED <<watch, page, look, entry, made>>

\* Mutant (OwnWorkIsShownInTheEnd): the page does not tell.
AnswerOnly ==
  /\ call.client = "waiting" /\ call.server \in {"did", "refused", "failed"}
  /\ call' = [call EXCEPT !.client = "done"]
  /\ UNCHANGED <<watch, page, look, entry, fetch, made, behind, excused>>

(* onSuccess runs when the server did it, onSettled in either case. *)
Answer ==
  /\ call.client = "waiting" /\ call.server \in {"did", "refused", "failed"}
  /\ call' = [call EXCEPT !.client =
                IF IsTold /\ (call.server = "did" \/ op \in Always) THEN "telling" ELSE "done"]
  /\ UNCHANGED <<watch, page, look, entry, fetch, made, behind, excused>>

(* The answer does not come: for the browser the mutation has failed. *)
AnswerIsLost ==
  /\ call.client = "waiting"
  /\ LET runs == IsTold /\ op \in Always
     IN /\ call' = [call EXCEPT !.client = IF runs THEN "telling" ELSE "done"]
        /\ excused' = (excused \/ (call.server = "did" /\ ~runs))
  /\ UNCHANGED <<watch, page, look, entry, fetch, made, behind>>

\* Mutant (OwnWorkShows): what is not on the screen is not marked.
TellWhatIsSeen ==
  /\ call.client = "telling"
  /\ call' = [call EXCEPT !.client = "done"]
  /\ IF Observed THEN entry' = [entry EXCEPT !.mark = "invalid"] /\ fetch' = NewFetch
     ELSE UNCHANGED <<entry, fetch>>
  /\ excused' = (excused \/ (fetch.late /\ ~(Observed /\ entry.held)))
  /\ UNCHANGED <<watch, page, look, made, behind>>

(* invalidateQueries: data on the screen is fetched again and a request
   that is under way for it is dropped.  A first load is joined, and a
   request nobody looks at goes on; either may bring what it read before. *)
Tell ==
  /\ call.client = "telling"
  /\ call' = [call EXCEPT !.client = "done"]
  /\ entry' = [entry EXCEPT !.mark = "invalid"]
  /\ fetch' = IF Observed /\ (entry.held \/ fetch.stage = "idle") THEN NewFetch ELSE fetch
  /\ excused' = (excused \/ (fetch.late /\ ~(Observed /\ entry.held)))
  /\ UNCHANGED <<watch, page, look, made, behind>>

CacheNext ==
  \/ \E p \in watch.pages : Navigate(p)
  \/ LookAway \/ LookBack
  \/ Refetch \/ Reload \/ Age \/ Collect
  \/ FetchReads \/ FetchLands \/ FetchFails
  \/ Mutate \/ Commit \/ Refuse \/ FailPartDone
  \/ Answer \/ AnswerIsLost \/ Tell

(* A request is answered or fails in the end, and callbacks run. *)
FetchEnds == FetchReads \/ FetchLands \/ FetchFails
CallEnds == Answer \/ AnswerIsLost \/ Tell

CacheFairness == WF_cacheVars(FetchEnds) /\ WF_cacheVars(CallEnds)

CacheSpec == CacheInit /\ [][CacheNext]_cacheVars /\ CacheFairness

-----------------------------------------------------------------------------
(* When nothing is under way, what is on the screen includes what this user
   has done, the part of it that a failed call left included, but for the
   pairs in Gaps, for a write whose answer never came or was an error that
   the page does not tell of, and for an entry whose mark an older answer
   took away. *)
OwnWorkShows ==
  Observed /\ entry.held /\ entry.mark # "failed" /\ behind
    => \/ excused \/ IsGap
       \/ fetch.stage # "idle" \/ call.client \in {"waiting", "telling"}

(* What a mutation that is answered has written, also one that failed half
   way on a page that tells of failures too, is shown in the end, unless the
   user looks away, the refetch fails or it is one of the excepted cases. *)
OwnWorkIsShownInTheEnd ==
  (call.client = "waiting" /\ call.server \in {"did", "failed"})
    ~> (~behind \/ ~Observed \/ entry.mark = "failed" \/ excused \/ IsGap)
=============================================================================
