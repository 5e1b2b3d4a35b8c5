------------------------------- MODULE AdminPage -------------------------------
(* The administrator's page (the script in internal/server/admin_ui.go) and the *)
(* handlers behind it (http.go).  Every request is a promise of its own: the    *)
(* page stays usable while it waits, so that requests overlap and their answers *)
(* come in any order.  A save replaces the whole entry of a proxy by what the   *)
(* page holds.  Times travel as a wall clock without a zone, in whole minutes.   *)
(*                                                                              *)
(* One page is modelled in detail; somebody else may save anything.  Remarks,   *)
(* which go with the date, and the overview are left out.  All proxies are      *)
(* taken to be known to the server, so that each has a row.                     *)
EXTENDS ProxyConfigs, FiniteSets

CONSTANTS Calls,       \* requests that may be under way at once
          MaxEach,     \* bound: loads of the list, and other requests, at once
          NoProxy,     \* no selection
          Others,      \* entries that somebody else saves
          TypedDates,  \* dates that the administrator types
          Minute,      \* moments in a minute
          Offset       \* how far the browser's zone is ahead of the server's

ASSUME PageAssumption ==
    /\ NoProxy \notin Proxies
    /\ Others \subseteq Configs
    /\ TypedDates \subseteq Moments \cup {Never}
    /\ Minute \in Nat \ {0}
    /\ Offset \in Int

VARIABLES shown,       \* state.proxies: the rows of the page
          selected,    \* state.selectedProxyId
          form,        \* the date field of the form
          typed,       \* the administrator typed what is in it
          call,        \* the requests
          outOfStep    \* history: something happened since the last undisturbed
                       \* load that the page may not know of

page == <<shown, selected, form, typed>>
vars == <<config, page, call, outOfStep>>

\* A date field beyond the bound of time.
Beyond == LastMoment + 2
Dates == Moments \cup {Never}

\* The fields of a save; the moment that quickGrant means by N days from now; and
\* whether the date was typed.
Entry(enabled, permanent, date, until, byHand) ==
    [enabled |-> enabled, permanent |-> permanent, date |-> date,
     until |-> until, typed |-> byHand]

NoEntry == Entry(TRUE, TRUE, Never, Never, FALSE)
NoAnswer == [p \in {} |-> defaultProxyConfig]
NoCall == [kind |-> "list", asked |-> {}, entry |-> NoEntry, pc |-> "done",
           lost |-> FALSE, alone |-> FALSE, answer |-> NoAnswer]

Idle(c) == call[c].pc = "done"
AllIdle == \A c \in Calls : Idle(c)
IsSave(c) == call[c].kind \in {"grant", "note"}

Init ==
    /\ ConfigsInit
    /\ shown = NoAnswer
    /\ selected = NoProxy
    /\ form = Never
    /\ typed = FALSE
    /\ call = [c \in Calls |-> NoCall]
    /\ outOfStep = FALSE

\* toDatetimeLocal: the wall clock of the browser, with neither zone nor seconds.
\* The server, parseAdminExpiry, reads it as its own.
toDatetimeLocal(date) ==
    LET wall == date + Offset
        cut == wall - (wall % Minute)
    IN  IF date = Never THEN Never ELSE IF cut \in Moments THEN cut ELSE Beyond

\* fillDetail puts the date of an item into the form, whatever was typed there.
fillDetail(cfg) == form' = toDatetimeLocal(cfg.expires) /\ typed' = FALSE

-------------------------------------------------------------------------------
(* The page *)

\* History: nothing that is under way is alone any more.
Disturbed == [c \in Calls |-> [call[c] EXCEPT !.alone = FALSE]]

\* fetch: a request leaves.  The reads of the server begin at once, a save first
\* stores its entry.
Fetch(kind, asked, entry) ==
    /\ Cardinality({d \in Calls : ~Idle(d) /\ (call[d].kind = "list" <=> kind = "list")}) < MaxEach
    /\ \E c \in Calls :
          /\ Idle(c)
          /\ call' = [Disturbed EXCEPT ![c] =
                        [kind |-> kind, asked |-> asked, entry |-> entry, answer |-> NoAnswer,
                         pc |-> IF kind \in {"grant", "note"} THEN "sent" ELSE "reading",
                         lost |-> FALSE, alone |-> AllIdle]]
    /\ outOfStep' = (outOfStep \/ ~AllIdle)
    /\ UNCHANGED config

\* loadProxies: when the page opens, every 30 s, and after a test.
loadProxies ==
    /\ Fetch("list", Proxies, NoEntry)
    /\ UNCHANGED page

\* MUTANT: a proxy may be selected before the list is there.
selectProxyUnlisted(p) ==
    /\ selected' = p
    /\ Fetch("one", {p}, NoEntry)
    /\ UNCHANGED <<shown, form, typed>>

\* selectProxy: a click on a row.
selectProxy(p) ==
    /\ p \in DOMAIN shown
    /\ selected' = p
    /\ Fetch("one", {p}, NoEntry)
    /\ UNCHANGED <<shown, form, typed>>

\* The administrator uses the date field.
EditDate(date) ==
    /\ form' = date
    /\ typed' = TRUE
    /\ UNCHANGED <<config, shown, selected, call, outOfStep>>

\* savePayload, up to its await.
Save(kind, entry) ==
    /\ selected \in DOMAIN shown
    /\ Fetch(kind, {selected}, entry)
    /\ UNCHANGED <<shown, selected>>

\* quickGrant: disable, enable for good, or enable for some time from now.
Disable ==
    /\ Save("grant", Entry(FALSE, TRUE, Never, Never, FALSE))
    /\ UNCHANGED <<form, typed>>

Permit ==
    /\ Save("grant", Entry(TRUE, TRUE, Never, Never, FALSE))
    /\ UNCHANGED <<form, typed>>

\* MUTANT: the date is sent, and the entry is marked as permanent all the same.
GrantForGood(until) ==
    /\ form' = toDatetimeLocal(until)
    /\ form' # Beyond
    /\ typed' = TRUE
    /\ Save("grant", Entry(TRUE, TRUE, form', until, FALSE))

\* expiryInDays: until some moment to come.
Grant(until) ==
    /\ form' = toDatetimeLocal(until)
    /\ form' # Beyond
    /\ typed' = TRUE
    /\ Save("grant", Entry(TRUE, FALSE, form', until, FALSE))

\* MUTANT: saving the form enables the proxy, like the buttons do.
saveProxyEnables ==
    /\ form # Beyond
    /\ Save("note", Entry(TRUE, form = Never, form, Never, typed))
    /\ UNCHANGED <<form, typed>>

\* saveProxy: the date of the form, and the flag of the row as the page has it.
saveProxy ==
    /\ form # Beyond
    /\ selected \in DOMAIN shown
    /\ Save("note", Entry(shown[selected].enabled, form = Never, form, Never, typed))
    /\ UNCHANGED <<form, typed>>

-------------------------------------------------------------------------------
(* The server's handlers *)

\* handleAdminProxySave, up to the store, after which only the history keeps of the
\* entry what was meant.  The handler goes on without the page, and ends with an
\* answer that nobody waits for.
StoreEntry(c) ==
    /\ call[c].pc = "sent"
    /\ LET entry == call[c].entry
       IN  \E p \in call[c].asked :
              SaveProxyConfig(p, entry.enabled, entry.permanent, entry.date)
    /\ call' = [call EXCEPT ![c] =
                   IF @.lost THEN NoCall
                   ELSE [@ EXCEPT !.pc = "reading",
                                  !.entry = [NoEntry EXCEPT !.until = call[c].entry.until]]]
    /\ UNCHANGED <<page, outOfStep>>

\* buildAdminProxyItem, for the list one proxy after the other.
ReadEntry(c, p) ==
    /\ call[c].pc = "reading"
    /\ p \in call[c].asked \ DOMAIN call[c].answer
    /\ call' = [call EXCEPT ![c].answer =
                   [q \in DOMAIN @ \cup {p} |-> IF q = p THEN config[p] ELSE @[q]]]
    /\ UNCHANGED <<config, page, outOfStep>>

-------------------------------------------------------------------------------
(* The answers *)

Answered(c) == call[c].pc = "reading" /\ DOMAIN call[c].answer = call[c].asked
Ends(c) == call' = [call EXCEPT ![c] = NoCall]

\* loadProxies after its await: new rows; a selection if there is none.
ListArrives(c) ==
    /\ Answered(c)
    /\ call[c].kind = "list"
    /\ shown' = call[c].answer
    /\ selected' \in (IF selected \in Proxies THEN {selected} ELSE Proxies)
    /\ fillDetail(shown'[selected'])
    /\ Ends(c)
    /\ outOfStep' = (outOfStep /\ ~call[c].alone)
    /\ UNCHANGED config

\* MUTANT: the item fills the form, the row keeps what it showed.
ItemArrivesFormOnly(c) ==
    /\ Answered(c)
    /\ call[c].kind # "list"
    /\ \E p \in call[c].asked : fillDetail(call[c].answer[p])
    /\ Ends(c)
    /\ UNCHANGED <<config, shown, selected, outOfStep>>

\* selectProxy and savePayload after their await: the item goes into its row, and
\* into the form, whatever is selected by now.
ItemArrives(c) ==
    /\ Answered(c)
    /\ call[c].kind # "list"
    /\ \E p \in call[c].asked :
          /\ shown' = [shown EXCEPT ![p] = call[c].answer[p]]
          /\ fillDetail(call[c].answer[p])
    /\ Ends(c)
    /\ UNCHANGED <<config, selected, outOfStep>>

\* The page is told of a failure, or gives up a request that did not get to the
\* server or whose answer got lost, or the handler fails: the page stays as it was.
\* It does not know whether a save was stored, and may have selected a row that the
\* form is not of.
CallFails(c) ==
    /\ ~Idle(c)
    /\ Ends(c)
    /\ outOfStep' = (outOfStep \/ call[c].kind # "list")
    /\ UNCHANGED <<config, page>>

\* The page gives a save up, and the server has it all the same: its handler does
\* not hear of that, and stores the entry at any later time.
CallIsLost(c) ==
    /\ call[c].pc = "sent" /\ ~call[c].lost
    /\ call' = [call EXCEPT ![c].lost = TRUE, ![c].alone = FALSE, ![c].entry.until = Never]
    /\ outOfStep' = TRUE
    /\ UNCHANGED <<config, page>>

-------------------------------------------------------------------------------
\* Another page, or another client of the API, saves an entry.
SomebodySaves ==
    /\ \E p \in Proxies, cfg \in Others : config' = [config EXCEPT ![p] = cfg]
    /\ call' = Disturbed
    /\ outOfStep' = TRUE
    /\ UNCHANGED page

PageStep ==
    \/ loadProxies \/ Disable \/ Permit \/ saveProxy
    \/ \E p \in Proxies : selectProxy(p)
    \/ \E date \in TypedDates : EditDate(date)
    \/ \E until \in Moments \ {0} : Grant(until)

CallStep(c) ==
    \/ StoreEntry(c) \/ (\E p \in Proxies : ReadEntry(c, p))
    \/ ListArrives(c) \/ ItemArrives(c) \/ CallFails(c) \/ CallIsLost(c)

Next == PageStep \/ (\E c \in Calls : CallStep(c)) \/ SomebodySaves

Spec == Init /\ [][Next]_vars

-------------------------------------------------------------------------------
Snapshots == UNION {[S -> Configs] : S \in SUBSET Proxies}

TypeOK ==
    /\ config \in [Proxies -> Configs]
    /\ shown \in Snapshots
    /\ selected \in DOMAIN shown \cup {NoProxy}
    /\ form \in Dates \cup {Beyond}
    /\ typed \in BOOLEAN
    /\ call \in [Calls -> [kind : {"list", "one", "grant", "note"}, asked : SUBSET Proxies,
                          entry : [enabled : BOOLEAN, permanent : BOOLEAN, date : Dates,
                                   until : Dates, typed : BOOLEAN],
                          pc : {"done", "sent", "reading"}, lost : BOOLEAN,
                          alone : BOOLEAN, answer : Snapshots]]
    /\ outOfStep \in BOOLEAN

\* A page that is not waiting shows what the server has, once a load of the list
\* ran undisturbed, until requests overlap, one fails or somebody else saves: each
\* request brings its row up to date, the next load heals the rest, unless a save
\* that the page gave up may still be stored (admin_ui.go:589-636, 748; http.go:423).
PageIsTrue ==
    ~outOfStep /\ AllIdle => \A p \in DOMAIN shown : shown[p] = config[p]

\* The date that a field makes of another: none of none, and else the wall clock of
\* the browser without its seconds.
IsWallClockOf(shownDate, date) ==
    /\ date = Never <=> shownDate = Never
    /\ date # Never => /\ shownDate <= date + Offset
                       /\ date + Offset < shownDate + Minute

\* Saving remark and date leaves the rest of an entry as it is, under the same
\* conditions: saveProxy sends back the flag that the row has, and the date of the
\* form, which must be of the proxy that is selected.  A date that nobody typed loses
\* its seconds and moves by the difference of the zones, and no further
\* (admin_ui.go:501-510, 658-672; http.go:641-658).
NoteKeepsTheRest ==
    [][\A c \in Calls :
         /\ call[c].kind = "note" /\ call[c].pc = "sent" /\ call'[c].pc = "reading"
         /\ ~outOfStep
         => \A p \in call[c].asked :
              /\ config'[p].enabled = config[p].enabled
              /\ ~call[c].entry.typed => IsWallClockOf(config'[p].expires, config[p].expires)]_vars

\* A proxy that the page reports as granted until some moment may be used until then
\* by the browser's wall clock, up to its last full minute, and no further: early or
\* late by the difference of the zones (admin_ui.go:653-655; http.go:649-655), under
\* the same conditions.
GrantIsByTheWallClock ==
    \A c \in Calls :
        Answered(c) /\ ~outOfStep /\ call[c].entry.until # Never
            => \A p \in call[c].asked :
                  IsWallClockOf(call[c].answer[p].expires, call[c].entry.until)
================================================================================
