----------------------------- MODULE MonitorPage -----------------------------
(***************************************************************************)
(* The monitoring page of src/apps/web/src/App.vue over the request log:   *)
(* the user changes filters and pages, a timer refreshes silently every    *)
(* five seconds, and each load is a call that the server answers with two  *)
(* queries, a count and a page of rows.  Calls overtake each other.  The   *)
(* page numbers its loads (monitoringRequestVersion) and obeys the reply   *)
(* of the newest only; here a call carries whether it is the newest.       *)
(*                                                                         *)
(* Of the filters startedAfter stands for all: the picker gives whole      *)
(* seconds.  The summary is a function of the count query and left out, as *)
(* is requestLogTotal, the overview's copy of an unfiltered total.  So is  *)
(* an accepted reply whose body is cut off (api.ts:33), after which the    *)
(* page has no rows to draw until the next load.                           *)
(***************************************************************************)
EXTENDS RequestLog

CONSTANTS
    MaxCalls,       \* bound: calls under way at once
    Filters,        \* what startedAfter may be, in tenths of a second
    NoFilter,       \* no filter set
    PageSize,       \* monitoringPageSize (11)
    MaxPages,       \* bound: pages the user visits
    MaxClicks       \* bound: times the user enters, leaves, hides or uses the page

ASSUME MonitorAssumption ==
    /\ PageSize \in Nat \ {0} /\ MaxPages \in Nat \ {0} /\ MaxClicks \in Nat
    /\ MaxCalls \in Nat \ {0}
    /\ NoFilter \notin Filters /\ Filters \subseteq Nat

VARIABLES
    filters, page,  \* monitoringFilters, monitoringPage
    pageWatch,      \* watch(monitoringPage) is due
    open,           \* the view is the monitor: its timer runs
    hidden,         \* document.hidden: the browser's tab is in the background
    calls,          \* slot -> a load under way, or NoCall
    shown,          \* requestLogs and monitoringTotal, and what they answer
    loading,        \* monitoringLoading
    settled,        \* history: how the newest load ended
    clicks

pageVars == <<filters, page, pageWatch, open, hidden, calls, shown, loading, settled, clicks>>
vars == <<logVars, pageVars>>

Slots == 1..MaxCalls

NoCall == [stage |-> "none"]

AnyFilter == Filters \cup {NoFilter}

Asked(silent) ==
    [stage |-> "asked", newest |-> TRUE, silent |-> silent,
     filter |-> filters', page |-> page', total |-> 0]

(* requestLogWhere: the bound is formatted and compared as text.           *)
Matching(filter) ==
    {e \in rows : filter # NoFilter => RowKey(e) >= TextKey(filter)}

(* The rows of LIMIT size OFFSET (n - 1) * size.                           *)
IsPage(data, S, n) ==
    \E before \in SUBSET S :
        /\ AreFirst(before, S, (n - 1) * PageSize)
        /\ AreFirst(data, S \ before, PageSize)

Newest == {s \in Slots : calls[s] # NoCall /\ calls[s].newest}

PageInit ==
    /\ filters = NoFilter /\ page = 1
    /\ pageWatch = FALSE /\ open = FALSE /\ hidden = FALSE
    /\ calls = [s \in Slots |-> NoCall]
    /\ shown = [rows |-> {}, total |-> 0, filter |-> NoFilter, page |-> 1]
    /\ loading = FALSE
    /\ settled = "none"

Init == LogInit /\ PageInit /\ clicks = 0

(***************************************************************************)
(* loadRequestLogs up to its await: the call becomes the newest.           *)
(***************************************************************************)
Outdated(call) == IF call = NoCall THEN NoCall ELSE [call EXCEPT !.newest = FALSE]

loadRequestLogs(silent) ==
    \E s \in Slots :
        /\ calls[s] = NoCall /\ \A q \in 1..(s - 1) : calls[q] # NoCall
        /\ calls' = [q \in Slots |-> IF q = s THEN Asked(silent) ELSE Outdated(calls[q])]
        /\ loading' = (loading \/ ~silent)
        /\ settled' = "none"

Act == clicks < MaxClicks /\ clicks' = clicks + 1

Click == open /\ ~hidden /\ Act

(* applyMonitoringFilters and clearMonitoringFilters: on page 1 they load, *)
(* elsewhere they go to page 1 and its watcher loads.                      *)
ApplyFilters(filter) ==
    /\ Click
    /\ filters' = filter
    /\ page' = 1
    /\ IF page = 1
       THEN loadRequestLogs(FALSE) /\ UNCHANGED pageWatch
       ELSE pageWatch' = TRUE /\ UNCHANGED <<calls, loading, settled>>
    /\ UNCHANGED <<logVars, open, hidden, shown>>

ChoosePage(n) ==
    /\ Click
    /\ n # page
    /\ page' = n
    /\ pageWatch' = TRUE
    /\ UNCHANGED <<logVars, filters, open, hidden, calls, shown, loading, settled>>

(* Vue runs the watcher after the code that changed the page, and possibly *)
(* after the continuation of a call that was answered meanwhile.           *)
WatchPage ==
    /\ pageWatch
    /\ pageWatch' = FALSE
    /\ UNCHANGED <<filters, page>>
    /\ loadRequestLogs(FALSE)
    /\ UNCHANGED <<logVars, open, hidden, shown, clicks>>

ClickRefresh ==
    /\ Click
    /\ UNCHANGED <<filters, page>>
    /\ loadRequestLogs(FALSE)
    /\ UNCHANGED <<logVars, pageWatch, open, hidden, shown>>

(* The interval, which goes on in the background and does nothing there.   *)
SilentRefresh ==
    /\ open /\ ~hidden
    /\ UNCHANGED <<filters, page>>
    /\ loadRequestLogs(TRUE)
    /\ UNCHANGED <<logVars, pageWatch, open, hidden, shown, clicks>>

(* The tab goes into the background, and comes back (visibilitychange).    *)
Hide ==
    /\ ~hidden /\ Act
    /\ hidden' = TRUE
    /\ UNCHANGED <<logVars, filters, page, pageWatch, open, calls, shown, loading, settled>>

Show ==
    /\ hidden /\ Act
    /\ hidden' = FALSE
    /\ UNCHANGED <<filters, page>>
    /\ IF open THEN loadRequestLogs(TRUE) ELSE UNCHANGED <<calls, loading, settled>>
    /\ UNCHANGED <<logVars, pageWatch, open, shown>>

Enter ==
    /\ ~open /\ Act
    /\ open' = TRUE
    /\ page' = 1
    /\ pageWatch' = (pageWatch \/ page # 1)
    /\ UNCHANGED filters
    /\ loadRequestLogs(FALSE)
    /\ UNCHANGED <<logVars, hidden, shown>>

(* Leaving stops the timer; calls under way and their replies stay.        *)
Leave ==
    /\ open /\ Act
    /\ open' = FALSE
    /\ UNCHANGED <<logVars, filters, page, pageWatch, hidden, calls, shown, loading,
                   settled>>

(***************************************************************************)
(* RequestLogsWithSummary: two statements, no transaction around them.     *)
(* The way of the reply to the page is no step of its own: what happens    *)
(* to the call meanwhile might as well happen before the second statement. *)
(***************************************************************************)
CountRows(s) ==
    /\ calls[s].stage = "asked"
    /\ calls' = [calls EXCEPT ![s].stage = "counted",
                              ![s].total = Cardinality(Matching(calls[s].filter))]
    /\ UNCHANGED <<logVars, filters, page, pageWatch, open, hidden, shown, loading,
                   settled, clicks>>

(***************************************************************************)
(* The rest of loadRequestLogs: only the newest call shows anything, and   *)
(* only the newest ends the spinner.                                       *)
(***************************************************************************)
(* For a mutant: no look at the version before the rows are shown.         *)
ObeyedAlways(call) == TRUE

(* For a mutant: a silent load never replaces what a loud one showed.      *)
ObeyedUnlessSilent(call) == call.newest /\ ~call.silent

Obeyed(call) == call.newest

(* For a mutant: a silent load leaves the spinner to the load it replaced. *)
EndsOwnSpinner(call) == call.newest /\ ~call.silent

EndsSpinner(call) == call.newest

Settle(s, how) ==
    /\ calls' = [calls EXCEPT ![s] = NoCall]
    /\ loading' = (loading /\ ~EndsSpinner(calls[s]))
    /\ settled' = IF calls[s].newest THEN how ELSE settled
    /\ UNCHANGED <<logVars, filters, page, pageWatch, open, hidden, clicks>>

ShowReply(s) ==
    /\ calls[s].stage = "counted"
    /\ \E data \in SUBSET Matching(calls[s].filter) :
          /\ IsPage(data, Matching(calls[s].filter), calls[s].page)
          /\ shown' = IF Obeyed(calls[s])
                      THEN [rows |-> data, total |-> calls[s].total,
                            filter |-> calls[s].filter, page |-> calls[s].page]
                      ELSE shown
    /\ Settle(s, "shown")

(* A refused or failed call, at any time: a silent one says nothing.       *)
LoadFails(s) ==
    /\ calls[s] # NoCall
    /\ Settle(s, "failed")
    /\ UNCHANGED shown

Serve(s) == CountRows(s) \/ ShowReply(s)

Next ==
    \/ LogNext /\ UNCHANGED pageVars
    \/ \E filter \in AnyFilter : ApplyFilters(filter)
    \/ \E n \in 1..MaxPages : ChoosePage(n)
    \/ WatchPage \/ ClickRefresh \/ SilentRefresh \/ Hide \/ Show \/ Enter \/ Leave
    \/ \E s \in Slots : Serve(s) \/ LoadFails(s)

Spec == Init /\ [][Next]_vars

(* Requests end; the timer fires while the page is seen; a call always     *)
(* ends; and time and again the newest call is answered before the next    *)
(* one replaces it.  The last is an assumption about the server: one that  *)
(* always takes more than five seconds starves the page.                   *)
Fairness ==
    /\ \A e \in Entries : WF_vars(WriterStep(e) /\ UNCHANGED pageVars)
    /\ WF_vars(WatchPage)
    /\ WF_vars(SilentRefresh)
    /\ \A s \in Slots : WF_vars(Serve(s))
    /\ SF_vars(\E s \in Newest : CountRows(s))
    /\ SF_vars(\E s \in Newest : ShowReply(s))

FairSpec == Spec /\ Fairness

(***************************************************************************)
(* Properties                                                              *)
(***************************************************************************)
(* Once the newest load has been shown and no other is under way or due,   *)
(* the rows on the page answer the filters and the page number chosen,     *)
(* however the replies to earlier loads overtook it (App.vue:271-289).      *)
ShownAnswersChoice ==
    (settled = "shown" /\ Newest = {} /\ ~pageWatch)
        => shown.filter = filters /\ shown.page = page

(* The spinner turns only while the load that will stop it is under way:   *)
(* a silent refresh that replaces a load takes over its spinner            *)
(* (App.vue:276, 287).                                                      *)
SpinnerMeansCall == loading => Newest # {}

(* A page that stays open, is seen and left alone shows, from some time    *)
(* on, a right page of what the filters match, with its total.  One that   *)
(* is hidden shows what it showed until it is seen again.                  *)
ShowsTheLog ==
    \/ []<>(~open \/ hidden)
    \/ <>[](/\ IsPage(shown.rows, Matching(filters), page)
            /\ shown.total = Cardinality(Matching(filters)))

(* What store.go:341 says of RequestLogs, that it returns the matching     *)
(* entries: every row that began at startedAfter or later matches.  The    *)
(* text comparison leaves out those that began within that very second.    *)
FilterIsExact ==
    \A s \in Slots :
        (calls[s].stage = "counted" /\ calls[s].filter # NoFilter)
            => {e \in rows : startedAt[e] >= calls[s].filter} \subseteq Matching(calls[s].filter)
=============================================================================
