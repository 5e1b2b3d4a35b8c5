--------------------------- MODULE AdminPageProofs ----------------------------
(* Proofs about AdminPage, for any number of requests and of proxies.          *)
(*                                                                             *)
(* The page promises something only while it is in step: nothing overlapped,   *)
(* nothing failed, nobody else saved.  The invariant says what that means at   *)
(* every moment in between: one request at most is under way, it is about the  *)
(* row that is selected, what it has read is still stored, and every row is    *)
(* true but the one whose save waits for its answer.  It also says of a load   *)
(* that left alone that its answer is fresh even if the page is out of step,   *)
(* which is why the load heals it.                                             *)
EXTENDS AdminPage, TLAPS

(* Types *)

\* The parts of a request.
Kinds == {"list", "one", "grant", "note"}
Entries == [enabled : BOOLEAN, permanent : BOOLEAN, date : Dates, until : Dates, typed : BOOLEAN]
Requests == [kind : Kinds, asked : SUBSET Proxies, entry : Entries,
             pc : {"done", "sent", "reading"}, lost : BOOLEAN, alone : BOOLEAN,
             answer : Snapshots]

\* TypeOK with names for its sets.
Types ==
    /\ config \in [Proxies -> Configs]
    /\ shown \in Snapshots
    /\ selected \in DOMAIN shown \cup {NoProxy}
    /\ form \in Dates \cup {Beyond}
    /\ typed \in BOOLEAN
    /\ call \in [Calls -> Requests]
    /\ outOfStep \in BOOLEAN

\* The two say the same.
LEMMA TypesAreTypeOK == Types <=> TypeOK
  BY DEF Types, TypeOK, Requests, Entries, Kinds

\* What a snapshot, the rows of a page or an answer, is: configurations of some proxies.
LEMMA SnapshotDef ==
    \A f : f \in Snapshots <=> \E S \in SUBSET Proxies : f \in [S -> Configs]
  BY DEF Snapshots

\* The same, to be used.
LEMMA SnapshotFacts ==
    ASSUME NEW f \in Snapshots
    PROVE  DOMAIN f \subseteq Proxies /\ \A p \in DOMAIN f : f[p] \in Configs
  BY SnapshotDef

\* The empty answer is one.
LEMMA NoAnswerType == NoAnswer \in Snapshots /\ DOMAIN NoAnswer = {}
  <1>1. NoAnswer \in [{} -> Configs] /\ {} \in SUBSET Proxies BY DEF NoAnswer
  <1>2. NoAnswer \in Snapshots BY <1>1, SnapshotDef
  <1>3. DOMAIN NoAnswer = {} BY DEF NoAnswer
  <1> QED BY <1>2, <1>3

\* A remainder is smaller than what it is taken of.
LEMMA Remainder == \A wall \in Int : wall % Minute \in 0..(Minute - 1)
  BY PageAssumption

\* What the date field makes of a date: none of none only, and the wall clock of the browser
\* without its seconds (toDatetimeLocal).
LEMMA DateTypes ==
    /\ Never \in Nat /\ Never \in Dates /\ Never \notin Moments
    /\ Beyond \notin Dates
    /\ \A date \in Dates : toDatetimeLocal(date) \in Dates \cup {Beyond}
    /\ \A date \in Dates : toDatetimeLocal(date) = Never <=> date = Never
    /\ \A date \in Dates : toDatetimeLocal(date) # Beyond
                             => IsWallClockOf(toDatetimeLocal(date), date)
  <1>1. /\ Never \in Nat /\ Never \in Dates /\ Never \notin Moments
        /\ Beyond \notin Dates /\ Beyond # Never
    BY ConfigsAssumption DEF Never, Dates, Moments, Beyond
  <1>2. ASSUME NEW date \in Dates
        PROVE  /\ toDatetimeLocal(date) \in Dates \cup {Beyond}
               /\ toDatetimeLocal(date) = Never <=> date = Never
               /\ toDatetimeLocal(date) # Beyond => IsWallClockOf(toDatetimeLocal(date), date)
    <2>1. CASE date = Never BY <1>1, <2>1 DEF toDatetimeLocal, IsWallClockOf
    <2>2. CASE date # Never
      <3>1. date \in Int /\ date + Offset \in Int
        BY <2>2, PageAssumption DEF Dates, Moments
      <3> DEFINE wall == date + Offset
                 rest == wall % Minute
                 down == wall - rest
      <3>2. rest \in 0..(Minute - 1) BY <3>1, Remainder
      <3>3. toDatetimeLocal(date) = IF down \in Moments THEN down ELSE Beyond
        BY <2>2 DEF toDatetimeLocal
      <3>4. wall \in Int /\ down = wall - rest BY <3>1
      <3> HIDE DEF rest, down
      <3>5. down <= wall /\ wall < down + Minute BY <3>2, <3>4, PageAssumption
      <3>6. CASE down \in Moments
        <4>1. toDatetimeLocal(date) = down /\ down # Never BY <1>1, <3>3, <3>6
        <4> QED BY <2>2, <3>5, <3>6, <4>1 DEF IsWallClockOf, Dates
      <3>7. CASE down \notin Moments BY <1>1, <2>2, <3>3, <3>7
      <3> QED BY <3>6, <3>7
    <2> QED BY <2>1, <2>2
  <1> QED BY <1>1, <1>2

\* The places where no request is under way.
LEMMA NoCallType == NoCall \in Requests /\ NoEntry \in Entries
  <1>1. NoEntry \in Entries BY DateTypes DEF NoEntry, Entry, Entries
  <1> QED BY <1>1, NoAnswerType DEF NoCall, Requests, Kinds

-------------------------------------------------------------------------------
(* The invariant *)

\* What a request asks for: the list asks for every proxy, the others for one; a save has
\* read nothing before it is stored, and a grant sends the date that the page shows.
CallShape(c) ==
    /\ call[c].pc = "sent" => IsSave(c) /\ DOMAIN call[c].answer = {}
    /\ ~Idle(c) /\ call[c].kind = "list" => call[c].asked = Proxies
    /\ ~Idle(c) /\ call[c].kind # "list" => \E p \in Proxies : call[c].asked = {p}
    /\ call[c].pc = "sent" /\ call[c].entry.until # Never
         => ~call[c].entry.permanent /\ call[c].entry.date = toDatetimeLocal(call[c].entry.until)

\* A request that is said to be alone still is.
Aloneness(c) == call[c].alone => ~Idle(c) /\ \A d \in Calls \ {c} : Idle(d)
\* A page in step has one request under way at most.
InTurn == ~outOfStep => \A c, d \in Calls : ~Idle(c) /\ ~Idle(d) => c = d

\* A save that the page gave up is on its way to the store, and the page is out of step.
LostIsNoted(c) == call[c].lost => call[c].pc = "sent" /\ outOfStep

\* What it read is still what is stored.
FreshAnswer(c) ==
    ~Idle(c) /\ (~outOfStep \/ call[c].alone)
      => \A p \in DOMAIN call[c].answer : call[c].answer[p] = config[p]

\* Its rows are true, but for the one whose save is stored and not answered.
TrueRows ==
    ~outOfStep => \A p \in DOMAIN shown :
        \/ shown[p] = config[p]
        \/ \E c \in Calls : call[c].pc = "reading" /\ IsSave(c) /\ p \in call[c].asked

\* What is under way is about the row that is selected: the item cannot fill the form of
\* another.
AskedIsSelected ==
    ~outOfStep => \A c \in Calls : ~Idle(c) /\ call[c].kind # "list" => call[c].asked = {selected}

\* The form is of the row, unless somebody typed or an item is on its way.
FormIsOfRow ==
    ~outOfStep /\ ~typed /\ selected \in DOMAIN shown =>
        \/ form = toDatetimeLocal(shown[selected].expires)
        \/ \E c \in Calls : ~Idle(c) /\ call[c].kind # "list"

\* An entry of saveProxy that changes nothing but the remark and a date that was typed.
NoteFits(entry, p) ==
    /\ entry.enabled = config[p].enabled
    /\ ~entry.typed =>
          toDatetimeLocal(config[p].expires) = IF entry.permanent THEN Never ELSE entry.date

\* A save of remark and date that is not yet stored still fits.
NoteIsFaithful(c) ==
    ~outOfStep /\ call[c].pc = "sent" /\ call[c].kind = "note" =>
        \A p \in call[c].asked : NoteFits(call[c].entry, p)

\* A grant that is stored has the date that was meant, as far as the zone allows.
GrantIsStored(c) ==
    ~outOfStep /\ call[c].pc = "reading" /\ call[c].entry.until # Never =>
        \A p \in call[c].asked : config[p].expires = toDatetimeLocal(call[c].entry.until)

\* The inductive invariant.
IInv ==
    /\ Types
    /\ InTurn /\ TrueRows /\ AskedIsSelected /\ FormIsOfRow
    /\ \A c \in Calls : /\ CallShape(c) /\ Aloneness(c) /\ LostIsNoted(c) /\ FreshAnswer(c)
                        /\ NoteIsFaithful(c) /\ GrantIsStored(c)

\* A page that opens satisfies the invariant.
LEMMA Initially == Init => IInv
  <1> SUFFICES ASSUME Init PROVE IInv OBVIOUS
  <1>1. Types
    <2>1. config \in [Proxies -> Configs]
      BY DateTypes DEF Init, ConfigsInit, Configs, defaultProxyConfig, Dates
    <2>2. call \in [Calls -> Requests] BY NoCallType DEF Init
    <2> QED BY <2>1, <2>2, NoAnswerType, DateTypes DEF Init, Types
  <1>2. \A c \in Calls : Idle(c) /\ ~call[c].alone /\ ~call[c].lost /\ call[c].entry.until = Never
    BY DEF Init, NoCall, Idle, NoEntry, Entry
  <1>3. shown = NoAnswer /\ ~outOfStep BY DEF Init
  <1> QED BY <1>1, <1>2, <1>3, NoAnswerType
          DEF IInv, InTurn, TrueRows, AskedIsSelected, FormIsOfRow,
              CallShape, Aloneness, LostIsNoted, FreshAnswer, NoteIsFaithful, GrantIsStored, Idle

-------------------------------------------------------------------------------
(* Requests leave *)

\* Request c has left with these fields, and what was under way is alone no more.
Leaves(c, kind, asked, entry) ==
    /\ Idle(c)
    /\ call'[c].kind = kind /\ call'[c].asked = asked /\ call'[c].entry = entry
    /\ call'[c].answer = NoAnswer
    /\ call'[c].pc = IF kind \in {"grant", "note"} THEN "sent" ELSE "reading"
    /\ call'[c].alone = AllIdle /\ ~call'[c].lost
    /\ \A d \in Calls \ {c} :
          /\ call'[d].lost = call[d].lost
          /\ call'[d].kind = call[d].kind /\ call'[d].asked = call[d].asked
          /\ call'[d].entry = call[d].entry /\ call'[d].answer = call[d].answer
          /\ call'[d].pc = call[d].pc /\ call'[d].alone = FALSE

\* What the requests are once one has left.
LEMMA Fetched ==
    ASSUME Types, NEW kind \in Kinds, NEW asked \in SUBSET Proxies, NEW entry \in Entries,
           Fetch(kind, asked, entry)
    PROVE  /\ call' \in [Calls -> Requests]
           /\ UNCHANGED config
           /\ outOfStep' \in BOOLEAN /\ (~outOfStep' => ~outOfStep /\ AllIdle)
           /\ \E c \in Calls : Leaves(c, kind, asked, entry)
  <1> DEFINE new == [kind |-> kind, asked |-> asked, entry |-> entry, answer |-> NoAnswer,
                     pc |-> IF kind \in {"grant", "note"} THEN "sent" ELSE "reading",
                     lost |-> FALSE, alone |-> AllIdle]
  <1>1. PICK c \in Calls : Idle(c) /\ call' = [Disturbed EXCEPT ![c] = new]
    BY DEF Fetch
  <1>2. AllIdle \in BOOLEAN BY DEF AllIdle, Idle
  <1>3. new \in Requests BY <1>2, NoAnswerType DEF Requests
  <1>4. call \in [Calls -> Requests] BY DEF Types
  <1>5. \A d \in Calls : [call[d] EXCEPT !.alone = FALSE] \in Requests BY <1>4 DEF Requests
  <1>6. Disturbed \in [Calls -> Requests] BY <1>5 DEF Disturbed
  <1> HIDE DEF new
  <1>7. /\ call' \in [Calls -> Requests]
        /\ call'[c] = new
        /\ \A d \in Calls \ {c} : call'[d] = [call[d] EXCEPT !.alone = FALSE]
    BY <1>1, <1>3, <1>6 DEF Disturbed
  <1>8. \A d \in Calls \ {c} :
                       /\ call'[d].lost = call[d].lost
                       /\ call'[d].kind = call[d].kind /\ call'[d].asked = call[d].asked
                       /\ call'[d].entry = call[d].entry /\ call'[d].answer = call[d].answer
                       /\ call'[d].pc = call[d].pc /\ call'[d].alone = FALSE
    BY <1>4, <1>7 DEF Requests
  <1>9. /\ call'[c].kind = kind /\ call'[c].asked = asked /\ call'[c].entry = entry
        /\ call'[c].answer = NoAnswer
        /\ call'[c].pc = IF kind \in {"grant", "note"} THEN "sent" ELSE "reading"
        /\ call'[c].alone = AllIdle /\ ~call'[c].lost
    BY <1>7 DEF new
  <1>10. /\ UNCHANGED config
         /\ outOfStep' = (outOfStep \/ ~AllIdle)
    BY DEF Fetch
  <1>11. outOfStep' \in BOOLEAN /\ (~outOfStep' => ~outOfStep /\ AllIdle) BY <1>10
  <1>12. UNCHANGED config BY <1>10
  <1>13. Leaves(c, kind, asked, entry) BY <1>1, <1>8, <1>9 DEF Leaves
  <1> QED BY <1>7, <1>11, <1>12, <1>13

\* A request that leaves, of the page as it is or after a selection, keeps the invariant; a
\* save of remark and date has to fit what is stored.
LEMMA FetchStep ==
    ASSUME IInv, NEW kind \in Kinds, NEW asked \in SUBSET Proxies, NEW entry \in Entries,
           Fetch(kind, asked, entry),
           shown' = shown, selected' \in DOMAIN shown \cup {NoProxy},
           form' \in Dates \cup {Beyond}, typed' \in BOOLEAN,
           kind = "list" => /\ asked = Proxies /\ selected' = selected
                            /\ form' = form /\ typed' = typed,
           kind # "list" => asked = {selected'},
           kind \in {"list", "one"} => entry.until = Never,
           entry.until # Never => ~entry.permanent /\ entry.date = toDatetimeLocal(entry.until),
           kind = "note" /\ ~outOfStep /\ AllIdle => NoteFits(entry, selected')
    PROVE  IInv'
  <1>0. Types BY DEF IInv
  <1>1. /\ call' \in [Calls -> Requests]
        /\ UNCHANGED config
        /\ outOfStep' \in BOOLEAN /\ (~outOfStep' => ~outOfStep /\ AllIdle)
    BY <1>0, Fetched
  <1>20. PICK c \in Calls : Leaves(c, kind, asked, entry)
    BY <1>0, Fetched
  <1>2. /\ Idle(c)
        /\ call'[c].kind = kind /\ call'[c].asked = asked /\ call'[c].entry = entry
        /\ call'[c].answer = NoAnswer
        /\ call'[c].pc = IF kind \in {"grant", "note"} THEN "sent" ELSE "reading"
        /\ call'[c].alone = AllIdle /\ ~call'[c].lost
        /\ \A d \in Calls \ {c} :
              /\ call'[d].lost = call[d].lost
              /\ call'[d].kind = call[d].kind /\ call'[d].asked = call[d].asked
              /\ call'[d].entry = call[d].entry /\ call'[d].answer = call[d].answer
              /\ call'[d].pc = call[d].pc /\ call'[d].alone = FALSE
    BY <1>20 DEF Leaves
  <1>3. Types' BY <1>0, <1>1 DEF Types
  <1>4. asked # {} /\ (kind # "list" => \E p \in Proxies : asked = {p})
    BY ConfigsAssumption
  <1>5. kind # "list" => selected' \in Proxies BY <1>4
  <1>6. DOMAIN NoAnswer = {} BY NoAnswerType
  <1>7. ~Idle(c)' /\ \A d \in Calls \ {c} : (Idle(d)' <=> Idle(d)) BY <1>2 DEF Idle
  <1>8. ~outOfStep' => \A d \in Calls \ {c} : Idle(d)' BY <1>1, <1>7 DEF AllIdle
  <1>9. InTurn' BY <1>8 DEF InTurn
  <1>11. TrueRows'
    <2> SUFFICES ASSUME ~outOfStep', NEW p \in DOMAIN shown PROVE shown[p] = config'[p]
      BY DEF TrueRows
    <2>1. \A d \in Calls : call[d].pc # "reading" BY <1>1 DEF AllIdle, Idle
    <2>2. shown[p] = config[p] BY <1>1, <2>1 DEF IInv, TrueRows
    <2> QED BY <2>2, <1>1
  <1>12. AskedIsSelected' BY <1>8, <1>2 DEF AskedIsSelected
  <1>13. FormIsOfRow'
    <2>1. CASE kind # "list" BY <2>1, <1>2, <1>7 DEF FormIsOfRow
    <2>2. CASE kind = "list"
      <3>1. ~outOfStep' => \A d \in Calls : Idle(d) BY <1>1 DEF AllIdle
      <3> QED BY <2>2, <1>1, <3>1 DEF IInv, FormIsOfRow
    <2> QED BY <2>1, <2>2
  <1>14. \A d \in Calls : CallShape(d)'
    <2>1. CallShape(c)' BY <1>2, <1>4, <1>6 DEF CallShape, IsSave, Kinds
    <2>2. \A d \in Calls \ {c} : CallShape(d)' BY <1>2 DEF CallShape, IsSave, IInv, Idle
    <2> QED BY <2>1, <2>2
  <1>15. \A d \in Calls : Aloneness(d)'
    <2>1. Aloneness(c)' BY <1>2, <1>7 DEF Aloneness, AllIdle
    <2>2. \A d \in Calls \ {c} : Aloneness(d)' BY <1>2 DEF Aloneness
    <2> QED BY <2>1, <2>2
  <1>151. \A d \in Calls : LostIsNoted(d)'
    <2>1. outOfStep => outOfStep' BY <1>0, <1>1 DEF Types
    <2> QED BY <1>2, <2>1 DEF IInv, LostIsNoted
  <1>16. \A d \in Calls : FreshAnswer(d)'
    <2>1. FreshAnswer(c)' BY <1>2, <1>6 DEF FreshAnswer
    <2>2. \A d \in Calls \ {c} : FreshAnswer(d)' BY <1>2, <1>8 DEF FreshAnswer
    <2> QED BY <2>1, <2>2
  <1>17. \A d \in Calls : NoteIsFaithful(d)'
    <2>1. NoteIsFaithful(c)'
      <3> SUFFICES ASSUME ~outOfStep', kind = "note", NEW p \in asked PROVE NoteFits(entry, p)'
        BY <1>2 DEF NoteIsFaithful
      <3>1. NoteFits(entry, p) BY <1>1, <1>5
      <3> QED BY <3>1, <1>1 DEF NoteFits
    <2>2. \A d \in Calls \ {c} : NoteIsFaithful(d)' BY <1>8 DEF NoteIsFaithful, Idle
    <2> QED BY <2>1, <2>2
  <1>18. \A d \in Calls : GrantIsStored(d)'
    <2>1. GrantIsStored(c)' BY <1>2 DEF GrantIsStored, Kinds
    <2>2. \A d \in Calls \ {c} : GrantIsStored(d)' BY <1>8 DEF GrantIsStored, Idle
    <2> QED BY <2>1, <2>2
  <1> QED BY <1>3, <1>9, <1>11, <1>12, <1>13, <1>14, <1>15, <1>151, <1>16, <1>17, <1>18 DEF IInv

\* A row that is selected is one of a proxy.
LEMMA SelectionFacts ==
    ASSUME Types
    PROVE  /\ selected \in DOMAIN shown => selected \in Proxies
           /\ \A p \in DOMAIN shown : p \in Proxies /\ shown[p] \in Configs
  BY SnapshotFacts DEF Types

\* The same for the saves: a request about the row that is selected.
LEMMA SaveStep ==
    ASSUME IInv, NEW kind \in {"grant", "note"}, NEW entry \in Entries, Save(kind, entry),
           form' \in Dates \cup {Beyond}, typed' \in BOOLEAN,
           entry.until # Never => ~entry.permanent /\ entry.date = toDatetimeLocal(entry.until),
           kind = "note" /\ ~outOfStep /\ AllIdle => NoteFits(entry, selected)
    PROVE  IInv'
  <1>1. Types BY DEF IInv
  <1>2. selected \in DOMAIN shown /\ selected \in Proxies BY <1>1, SelectionFacts DEF Save
  <1>3. Fetch(kind, {selected}, entry) /\ shown' = shown /\ selected' = selected BY DEF Save
  <1>4. kind \in Kinds /\ kind # "list" /\ kind \notin {"list", "one"} BY DEF Kinds
  <1>5. {selected} \in SUBSET Proxies BY <1>2
  <1> QED BY <1>2, <1>3, <1>4, <1>5, FetchStep

\* loadProxies keeps the invariant.
LEMMA LoadStep == IInv /\ loadProxies => IInv'
  <1> SUFFICES ASSUME IInv, loadProxies PROVE IInv' OBVIOUS
  <1>1. Fetch("list", Proxies, NoEntry) /\ UNCHANGED <<shown, selected, form, typed>>
    BY DEF loadProxies, page
  <1>2. Types BY DEF IInv
  <1>3. "list" \in Kinds /\ NoEntry \in Entries /\ NoEntry.until = Never
    BY NoCallType DEF Kinds, NoEntry, Entry
  <1>4. /\ shown' = shown /\ selected' \in DOMAIN shown \cup {NoProxy}
        /\ form' \in Dates \cup {Beyond} /\ typed' \in BOOLEAN
    BY <1>1, <1>2 DEF Types
  <1> QED BY <1>1, <1>3, <1>4, FetchStep

\* selectProxy keeps it.
LEMMA SelectStep == ASSUME IInv, NEW p \in Proxies, selectProxy(p) PROVE IInv'
  <1>1. /\ Fetch("one", {p}, NoEntry) /\ UNCHANGED <<shown, form, typed>>
        /\ selected' = p /\ p \in DOMAIN shown
    BY DEF selectProxy
  <1>2. Types BY DEF IInv
  <1>3. "one" \in Kinds /\ NoEntry \in Entries /\ NoEntry.until = Never
    BY NoCallType DEF Kinds, NoEntry, Entry
  <1>4. /\ shown' = shown /\ selected' \in DOMAIN shown \cup {NoProxy}
        /\ form' \in Dates \cup {Beyond} /\ typed' \in BOOLEAN
    BY <1>1, <1>2 DEF Types
  <1>5. {p} \in SUBSET Proxies /\ {p} = {selected'} BY <1>1
  <1> QED BY <1>1, <1>3, <1>4, <1>5, FetchStep

\* The two buttons without a date keep it.
LEMMA DisableStep == IInv /\ (Disable \/ Permit) => IInv'
  <1> SUFFICES ASSUME IInv, Disable \/ Permit PROVE IInv' OBVIOUS
  <1>1. Types BY DEF IInv
  <1>2. PICK enabled \in BOOLEAN :
            Save("grant", Entry(enabled, TRUE, Never, Never, FALSE)) /\ UNCHANGED <<form, typed>>
    BY DEF Disable, Permit
  <1> DEFINE entry == Entry(enabled, TRUE, Never, Never, FALSE)
  <1>3. entry \in Entries /\ entry.until = Never BY DateTypes DEF Entry, Entries
  <1>4. form' \in Dates \cup {Beyond} /\ typed' \in BOOLEAN BY <1>1, <1>2 DEF Types
  <1> QED BY <1>2, <1>3, <1>4, SaveStep

\* So do the buttons with one: the form gets the date that is sent.
LEMMA GrantStep == ASSUME IInv, NEW until0 \in Moments \ {0}, Grant(until0) PROVE IInv'
  <1>1. /\ form' = toDatetimeLocal(until0) /\ form' # Beyond
        /\ typed' = TRUE
        /\ Save("grant", Entry(TRUE, FALSE, form', until0, FALSE))
    BY DEF Grant
  <1>2. until0 \in Dates BY DEF Dates
  <1>3. form' \in Dates BY <1>1, <1>2, DateTypes
  <1>4. PICK date \in Dates, until \in Dates :
          /\ Save("grant", Entry(TRUE, FALSE, date, until, FALSE))
          /\ date = toDatetimeLocal(until)
    BY <1>1, <1>2, <1>3
  <1>5. /\ Entry(TRUE, FALSE, date, until, FALSE) \in Entries
        /\ ~Entry(TRUE, FALSE, date, until, FALSE).permanent
        /\ Entry(TRUE, FALSE, date, until, FALSE).date = date
        /\ Entry(TRUE, FALSE, date, until, FALSE).until = until
    BY DEF Entry, Entries
  <1>6. form' \in Dates \cup {Beyond} /\ typed' \in BOOLEAN BY <1>1, <1>3
  <1> QED BY <1>4, <1>5, <1>6, SaveStep

\* saveProxy: the row and the form are true when nothing else is under way, so that what
\* is sent fits.
LEMMA NoteStep == IInv /\ saveProxy => IInv'
  <1> SUFFICES ASSUME IInv, saveProxy PROVE IInv' OBVIOUS
  <1>1. Types BY DEF IInv
  <1> DEFINE entry == Entry(shown[selected].enabled, form = Never, form, Never, typed)
  <1>2. /\ form # Beyond /\ selected \in DOMAIN shown /\ Save("note", entry)
        /\ UNCHANGED <<form, typed>>
    BY DEF saveProxy
  <1>3. form \in Dates /\ typed \in BOOLEAN BY <1>1, <1>2 DEF Types
  <1>4. shown[selected] \in Configs /\ shown[selected].enabled \in BOOLEAN
        /\ shown[selected].expires \in Dates
    BY <1>1, <1>2, SelectionFacts DEF Configs, Dates
  <1>5. /\ entry \in Entries /\ entry.until = Never /\ entry.date = form
        /\ entry.enabled = shown[selected].enabled
        /\ (entry.permanent <=> form = Never)
    BY <1>3, <1>4, DateTypes DEF Entry, Entries
  <1>6. entry.typed <=> typed BY DEF Entry, Entries
  <1> HIDE DEF entry
  <1>7. form' \in Dates \cup {Beyond} /\ typed' \in BOOLEAN BY <1>2, <1>3
  <1>8. ASSUME ~outOfStep, AllIdle PROVE NoteFits(entry, selected)
    <2>1. \A c \in Calls : Idle(c) BY <1>8 DEF AllIdle
    <2>2. shown[selected] = config[selected]
      BY <1>2, <1>8, <2>1 DEF IInv, TrueRows, Idle
    <2>3. ~typed => form = toDatetimeLocal(shown[selected].expires)
      BY <1>2, <1>8, <2>1 DEF IInv, FormIsOfRow
    <2>4. ~typed => toDatetimeLocal(config[selected].expires) =
                      IF entry.permanent THEN Never ELSE entry.date
      BY <1>5, <2>2, <2>3
    <2> QED BY <1>5, <1>6, <2>2, <2>4 DEF NoteFits
  <1> QED BY <1>2, <1>5, <1>7, <1>8, SaveStep

\* A date that is typed is not the row's any more, and not taken for it.
LEMMA EditStep == ASSUME IInv, NEW date \in TypedDates, EditDate(date) PROVE IInv'
  <1>1. /\ form' = date /\ typed' = TRUE
        /\ UNCHANGED <<config, shown, selected, call, outOfStep>>
    BY DEF EditDate
  <1>11. date \in Dates BY PageAssumption DEF Dates
  <1>2. Types' BY <1>1, <1>11 DEF IInv, Types
  <1>3. FormIsOfRow' BY <1>1 DEF FormIsOfRow
  <1>4. InTurn' /\ TrueRows' /\ AskedIsSelected'
    BY <1>1 DEF IInv, InTurn, TrueRows, AskedIsSelected, Idle, IsSave
  <1>5. \A c \in Calls : /\ CallShape(c)' /\ Aloneness(c)' /\ LostIsNoted(c)'
                        /\ FreshAnswer(c)' /\ GrantIsStored(c)'
    BY <1>1 DEF IInv, CallShape, Aloneness, LostIsNoted, FreshAnswer, GrantIsStored, Idle, IsSave
  <1>6. \A c \in Calls : NoteIsFaithful(c)' BY <1>1 DEF IInv, NoteIsFaithful, NoteFits
  <1> QED BY <1>2, <1>3, <1>4, <1>5, <1>6 DEF IInv

-------------------------------------------------------------------------------
(* The server's handlers *)

\* What normalizeProxyConfig makes of the fields of a save.
LEMMA ConfigTypes ==
    ASSUME NEW enabled \in BOOLEAN, NEW permanent \in BOOLEAN, NEW date \in Dates
    PROVE  /\ normalizeProxyConfig(enabled, permanent, date) \in Configs
           /\ normalizeProxyConfig(enabled, permanent, date).enabled = enabled
           /\ normalizeProxyConfig(enabled, permanent, date).expires =
                  IF permanent THEN Never ELSE date
  BY DateTypes DEF normalizeProxyConfig, Configs, Dates

\* What handleAdminProxySave changes: one entry, and the request, which it answers unless
\* nobody waits.
LEMMA Stored ==
    ASSUME Types, NEW c \in Calls, CallShape(c), StoreEntry(c)
    PROVE  /\ UNCHANGED <<shown, selected, form, typed, outOfStep>>
           /\ call[c].pc = "sent" /\ ~Idle(c) /\ IsSave(c) /\ DOMAIN call[c].answer = {}
           /\ \E p \in Proxies :
                 /\ call[c].asked = {p}
                 /\ config' \in [Proxies -> Configs]
                 /\ config'[p].enabled = call[c].entry.enabled
                 /\ config'[p].expires = IF call[c].entry.permanent THEN Never
                                         ELSE call[c].entry.date
                 /\ \A q \in Proxies \ {p} : config'[q] = config[q]
           /\ call' \in [Calls -> Requests]
           /\ call[c].lost => Ends(c)
           /\ ~call[c].lost =>
                 /\ call'[c].pc = "reading" /\ ~call'[c].lost
                 /\ call'[c].kind = call[c].kind /\ call'[c].asked = call[c].asked
                 /\ call'[c].entry.until = call[c].entry.until
                 /\ call'[c].answer = call[c].answer /\ call'[c].alone = call[c].alone
           /\ \A d \in Calls \ {c} : call'[d] = call[d]
  <1>1. call \in [Calls -> Requests] /\ config \in [Proxies -> Configs] BY DEF Types
  <1> DEFINE answering == [call[c] EXCEPT !.pc = "reading",
                              !.entry = [NoEntry EXCEPT !.until = call[c].entry.until]]
  <1>2. /\ call[c].pc = "sent"
        /\ call' = [call EXCEPT ![c] = IF call[c].lost THEN NoCall ELSE answering]
        /\ UNCHANGED <<shown, selected, form, typed, outOfStep>>
    BY <1>1 DEF StoreEntry, page
  <1>3. ~Idle(c) /\ IsSave(c) /\ DOMAIN call[c].answer = {} BY <1>2 DEF CallShape, Idle
  <1>4. PICK q \in Proxies : call[c].asked = {q}
    BY <1>3 DEF CallShape, IsSave
  <1> DEFINE entry == call[c].entry
  <1>5. entry \in Entries BY <1>1 DEF Requests
  <1>6. config' = [config EXCEPT ![q] =
                        normalizeProxyConfig(entry.enabled, entry.permanent, entry.date)]
    BY <1>4 DEF StoreEntry, SaveProxyConfig, saveProxyConfig
  <1>7. /\ entry.enabled \in BOOLEAN /\ entry.permanent \in BOOLEAN
        /\ entry.date \in Dates /\ entry.until \in Dates
    BY <1>5 DEF Entries
  <1>71. /\ [NoEntry EXCEPT !.until = entry.until] \in Entries
         /\ [NoEntry EXCEPT !.until = entry.until].until = entry.until
    BY <1>7, NoCallType DEF Entries
  <1>72. /\ answering \in Requests /\ answering.pc = "reading" /\ answering.lost = call[c].lost
         /\ answering.kind = call[c].kind /\ answering.asked = call[c].asked
         /\ answering.entry.until = call[c].entry.until
         /\ answering.answer = call[c].answer /\ answering.alone = call[c].alone
    BY <1>1, <1>71 DEF Requests
  <1> HIDE DEF entry, answering
  <1> DEFINE cfg == normalizeProxyConfig(entry.enabled, entry.permanent, entry.date)
  <1>8. /\ cfg \in Configs /\ cfg.enabled = entry.enabled
        /\ cfg.expires = IF entry.permanent THEN Never ELSE entry.date
    BY <1>7, ConfigTypes
  <1> HIDE DEF cfg
  <1>9. config' = [config EXCEPT ![q] = cfg] BY <1>6 DEF cfg
  <1>10. /\ config' \in [Proxies -> Configs] /\ config'[q] = cfg
         /\ \A r \in Proxies \ {q} : config'[r] = config[r]
    BY <1>1, <1>8, <1>9
  <1>11. \E p \in Proxies :
                 /\ call[c].asked = {p}
                 /\ config' \in [Proxies -> Configs]
                 /\ config'[p].enabled = entry.enabled
                 /\ config'[p].expires = IF entry.permanent THEN Never ELSE entry.date
                 /\ \A r \in Proxies \ {p} : config'[r] = config[r]
    BY <1>4, <1>8, <1>10
  <1>12. /\ call' \in [Calls -> Requests]
         /\ call'[c] = IF call[c].lost THEN NoCall ELSE answering
         /\ \A d \in Calls \ {c} : call'[d] = call[d]
    BY <1>1, <1>2, <1>72, NoCallType
  <1>13. call[c].lost => Ends(c) BY <1>2 DEF Ends
  <1> QED BY <1>2, <1>3, <1>11, <1>12, <1>13, <1>72 DEF entry

\* The others leave their row out of date until the answer is there.
LEMMA StoreStep == ASSUME IInv, NEW c \in Calls, StoreEntry(c), ~call[c].lost PROVE IInv'
  <1>0. Types /\ CallShape(c) /\ Aloneness(c) BY DEF IInv
  <1>1. /\ UNCHANGED <<shown, selected, form, typed, outOfStep>>
        /\ call[c].pc = "sent" /\ ~Idle(c) /\ IsSave(c) /\ DOMAIN call[c].answer = {}
        /\ call' \in [Calls -> Requests]
        /\ call'[c].pc = "reading" /\ ~call'[c].lost
        /\ call'[c].kind = call[c].kind /\ call'[c].asked = call[c].asked
        /\ call'[c].entry.until = call[c].entry.until
        /\ call'[c].answer = call[c].answer /\ call'[c].alone = call[c].alone
        /\ \A d \in Calls \ {c} : call'[d] = call[d]
    BY <1>0, Stored
  <1>2. PICK p \in Proxies :
                 /\ call[c].asked = {p}
                 /\ config' \in [Proxies -> Configs]
                 /\ config'[p].enabled = call[c].entry.enabled
                 /\ config'[p].expires = IF call[c].entry.permanent THEN Never
                                         ELSE call[c].entry.date
                 /\ \A q \in Proxies \ {p} : config'[q] = config[q]
    BY <1>0, Stored
  <1>3. Types' BY <1>0, <1>1, <1>2 DEF Types
  <1>4. \A d \in Calls : Idle(d)' <=> Idle(d) BY <1>1 DEF Idle
  <1>5. ~outOfStep => \A d \in Calls \ {c} : Idle(d) BY <1>1 DEF IInv, InTurn
  <1>6. \A d \in Calls \ {c} : ~call[d].alone BY <1>1 DEF IInv, Aloneness
  <1>7. InTurn' BY <1>1, <1>4 DEF IInv, InTurn
  <1>8. TrueRows'
    <2> SUFFICES ASSUME ~outOfStep, NEW q \in DOMAIN shown
        PROVE  \/ shown[q] = config'[q]
               \/ call'[c].pc = "reading" /\ IsSave(c)' /\ q \in call'[c].asked
      BY <1>1 DEF TrueRows
    <2>1. IsSave(c)' BY <1>1 DEF IsSave
    <2>2. CASE q = p BY <2>1, <2>2, <1>1, <1>2
    <2>3. CASE q # p
      <3>1. \A d \in Calls : call[d].pc # "reading" BY <1>1, <1>5 DEF Idle
      <3>2. shown[q] = config[q] BY <3>1 DEF IInv, TrueRows
      <3>3. q \in Proxies BY <1>0, SelectionFacts
      <3> QED BY <2>3, <3>2, <3>3, <1>2
    <2> QED BY <2>2, <2>3
  <1>9. AskedIsSelected' BY <1>1, <1>4 DEF IInv, AskedIsSelected
  <1>10. FormIsOfRow'
    <2>1. call'[c].kind # "list" /\ ~Idle(c)' BY <1>1, <1>4 DEF IsSave
    <2> QED BY <2>1 DEF FormIsOfRow
  <1>11. \A d \in Calls : CallShape(d)'
    <2>1. CallShape(c)' BY <1>0, <1>1, <1>2 DEF CallShape, Idle
    <2>2. \A d \in Calls \ {c} : CallShape(d)' BY <1>1 DEF IInv, CallShape, Idle, IsSave
    <2> QED BY <2>1, <2>2
  <1>12. \A d \in Calls : Aloneness(d)' BY <1>1, <1>4 DEF IInv, Aloneness
  <1>121. \A d \in Calls : LostIsNoted(d)' BY <1>1 DEF IInv, LostIsNoted
  <1>13. \A d \in Calls : FreshAnswer(d)'
    <2>1. FreshAnswer(c)' BY <1>1 DEF FreshAnswer
    <2>2. \A d \in Calls \ {c} : FreshAnswer(d)' BY <1>1, <1>4, <1>5, <1>6 DEF FreshAnswer
    <2> QED BY <2>1, <2>2
  <1>14. \A d \in Calls : NoteIsFaithful(d)'
    BY <1>1, <1>5 DEF NoteIsFaithful, Idle
  <1>15. \A d \in Calls : GrantIsStored(d)'
    <2>1. GrantIsStored(c)' BY <1>0, <1>1, <1>2 DEF GrantIsStored, CallShape
    <2>2. \A d \in Calls \ {c} : GrantIsStored(d)' BY <1>1, <1>5 DEF GrantIsStored, Idle
    <2> QED BY <2>1, <2>2
  <1> QED BY <1>3, <1>7, <1>8, <1>9, <1>10, <1>11, <1>12, <1>121, <1>13, <1>14, <1>15 DEF IInv

\* The entry of p, as it is, joins an answer.
Grows(c, p) ==
    /\ DOMAIN call'[c].answer = DOMAIN call[c].answer \cup {p}
    /\ \A q \in DOMAIN call'[c].answer :
          call'[c].answer[q] = IF q = p THEN config[p] ELSE call[c].answer[q]

\* What buildAdminProxyItem changes.
LEMMA Read ==
    ASSUME Types, NEW c \in Calls, NEW p \in Proxies, ReadEntry(c, p)
    PROVE  /\ UNCHANGED <<config, shown, selected, form, typed, outOfStep>>
           /\ call[c].pc = "reading" /\ p \in call[c].asked
           /\ call' \in [Calls -> Requests]
           /\ call'[c].pc = call[c].pc
           /\ call'[c].kind = call[c].kind /\ call'[c].asked = call[c].asked
           /\ call'[c].entry = call[c].entry /\ call'[c].alone = call[c].alone
           /\ call'[c].lost = call[c].lost
           /\ Grows(c, p)
           /\ \A d \in Calls \ {c} : call'[d] = call[d]
  <1>1. call \in [Calls -> Requests] /\ config \in [Proxies -> Configs] BY DEF Types
  <1> DEFINE old == call[c].answer
             new == [q \in DOMAIN old \cup {p} |-> IF q = p THEN config[p] ELSE old[q]]
  <1>2. /\ UNCHANGED <<config, shown, selected, form, typed, outOfStep>>
        /\ call[c].pc = "reading" /\ p \in call[c].asked
        /\ call' = [call EXCEPT ![c].answer = new]
    BY DEF ReadEntry, page
  <1>3. old \in Snapshots BY <1>1 DEF Requests
  <1>4. DOMAIN old \subseteq Proxies /\ \A q \in DOMAIN old : old[q] \in Configs
    BY <1>3, SnapshotFacts
  <1>5. new \in [DOMAIN old \cup {p} -> Configs] BY <1>1, <1>4
  <1>6. new \in Snapshots BY <1>4, <1>5, SnapshotDef
  <1>7. /\ DOMAIN new = DOMAIN old \cup {p}
        /\ \A q \in DOMAIN new : new[q] = IF q = p THEN config[p] ELSE old[q]
    OBVIOUS
  <1> HIDE DEF new
  <1>8. /\ call' \in [Calls -> Requests] /\ call'[c] = [call[c] EXCEPT !.answer = new]
        /\ \A d \in Calls \ {c} : call'[d] = call[d]
    BY <1>1, <1>2, <1>6 DEF Requests
  <1>9. /\ call'[c].pc = call[c].pc
        /\ call'[c].kind = call[c].kind /\ call'[c].asked = call[c].asked
        /\ call'[c].entry = call[c].entry /\ call'[c].answer = new
        /\ call'[c].alone = call[c].alone /\ call'[c].lost = call[c].lost
    BY <1>1, <1>8 DEF Requests
  <1>10. Grows(c, p) BY <1>7, <1>9 DEF Grows
  <1> QED BY <1>2, <1>8, <1>9, <1>10

\* An entry that is read is fresh.
LEMMA ReadStep == ASSUME IInv, NEW c \in Calls, NEW p \in Proxies, ReadEntry(c, p) PROVE IInv'
  <1>0. Types /\ CallShape(c) /\ FreshAnswer(c) BY DEF IInv
  <1>1. /\ UNCHANGED <<config, shown, selected, form, typed, outOfStep>>
           /\ call[c].pc = "reading" /\ p \in call[c].asked
           /\ call' \in [Calls -> Requests]
           /\ call'[c].pc = call[c].pc
           /\ call'[c].kind = call[c].kind /\ call'[c].asked = call[c].asked
           /\ call'[c].entry = call[c].entry /\ call'[c].alone = call[c].alone
           /\ call'[c].lost = call[c].lost
           /\ Grows(c, p)
           /\ \A d \in Calls \ {c} : call'[d] = call[d]
    BY <1>0, Read
  <1>2. Types' BY <1>0, <1>1 DEF Types
  <1>3. \A d \in Calls : /\ call'[d].pc = call[d].pc
                         /\ call'[d].kind = call[d].kind /\ call'[d].asked = call[d].asked
                         /\ call'[d].entry = call[d].entry
    BY <1>1
  <1>31. \A d \in Calls : call'[d].alone = call[d].alone BY <1>1
  <1>32. \A d \in Calls : (Idle(d)' <=> Idle(d)) /\ (IsSave(d)' <=> IsSave(d))
    BY <1>3 DEF Idle, IsSave
  <1>4. InTurn' /\ AskedIsSelected' BY <1>1, <1>3, <1>32 DEF IInv, InTurn, AskedIsSelected
  <1>5. FormIsOfRow' BY <1>1, <1>3, <1>32 DEF IInv, FormIsOfRow
  <1>6. TrueRows' BY <1>1, <1>3, <1>32 DEF IInv, TrueRows
  <1>7. \A d \in Calls : CallShape(d)'
    <2>1. CallShape(c)' BY <1>0, <1>1, <1>32 DEF CallShape
    <2>2. \A d \in Calls \ {c} : CallShape(d)' BY <1>1 DEF IInv, CallShape, Idle, IsSave
    <2> QED BY <2>1, <2>2
  <1>8. \A d \in Calls : Aloneness(d)' BY <1>31, <1>32 DEF IInv, Aloneness
  <1>81. \A d \in Calls : LostIsNoted(d)' BY <1>1 DEF IInv, LostIsNoted
  <1>9. \A d \in Calls : FreshAnswer(d)'
    <2>1. ASSUME ~Idle(c) /\ (~outOfStep \/ call[c].alone)
          PROVE  \A q \in DOMAIN call'[c].answer : call'[c].answer[q] = config[q]
      BY <1>0, <1>1, <2>1 DEF FreshAnswer, Grows
    <2>2. FreshAnswer(c)' BY <1>1, <1>31, <1>32, <2>1 DEF FreshAnswer
    <2>3. \A d \in Calls \ {c} : FreshAnswer(d)' BY <1>1 DEF IInv, FreshAnswer, Idle
    <2> QED BY <2>2, <2>3
  <1>10. \A d \in Calls : NoteIsFaithful(d)' BY <1>1, <1>3 DEF IInv, NoteIsFaithful, NoteFits
  <1>11. \A d \in Calls : GrantIsStored(d)' BY <1>1, <1>3 DEF IInv, GrantIsStored
  <1> QED BY <1>2, <1>4, <1>5, <1>6, <1>7, <1>8, <1>81, <1>9, <1>10, <1>11 DEF IInv

-------------------------------------------------------------------------------
(* The answers *)

\* What the end of a request leaves of the invariant.
LEMMA Ended ==
    ASSUME IInv, NEW c \in Calls, Ends(c)
    PROVE  /\ call' \in [Calls -> Requests]
           /\ Idle(c)' /\ ~call'[c].alone /\ ~call'[c].lost /\ call'[c].entry.until = Never
           /\ \A d \in Calls \ {c} : call'[d] = call[d]
           /\ \A d \in Calls : CallShape(d)' /\ (~Idle(c) => Aloneness(d)')
  <1>1. call \in [Calls -> Requests] BY DEF IInv, Types
  <1>2. /\ NoCall.pc = "done" /\ NoCall.alone = FALSE /\ NoCall.lost = FALSE
        /\ NoCall.entry.until = Never
    BY DEF NoCall, NoEntry, Entry
  <1>3. /\ call' \in [Calls -> Requests] /\ call'[c] = NoCall
        /\ \A d \in Calls \ {c} : call'[d] = call[d]
    BY <1>1, NoCallType DEF Ends
  <1>4. Idle(c)' /\ ~call'[c].alone /\ ~call'[c].lost /\ call'[c].entry.until = Never
    BY <1>2, <1>3 DEF Idle
  <1>5. CallShape(c)' BY <1>4 DEF CallShape, Idle
  <1>6. \A d \in Calls \ {c} : CallShape(d)' BY <1>3 DEF IInv, CallShape, Idle, IsSave
  <1>7. Aloneness(c)' BY <1>4 DEF Aloneness
  <1>8. ASSUME ~Idle(c) PROVE \A d \in Calls \ {c} : Aloneness(d)'
    <2>1. \A d \in Calls \ {c} : ~call[d].alone BY <1>8 DEF IInv, Aloneness
    <2> QED BY <2>1, <1>3 DEF Aloneness
  <1> QED BY <1>3, <1>4, <1>5, <1>6, <1>7, <1>8

\* A save that nobody waits for ends with the store: the page was and stays out of step.
LEMMA LateStoreStep == ASSUME IInv, NEW c \in Calls, StoreEntry(c), call[c].lost PROVE IInv'
  <1>0. Types /\ CallShape(c) /\ LostIsNoted(c) BY DEF IInv
  <1>1. /\ UNCHANGED <<shown, selected, form, typed, outOfStep>> /\ ~Idle(c) /\ Ends(c)
        /\ config' \in [Proxies -> Configs]
    BY <1>0, Stored
  <1>2. outOfStep /\ outOfStep' BY <1>0, <1>1 DEF LostIsNoted, Types
  <1>3. /\ call' \in [Calls -> Requests]
        /\ Idle(c)' /\ ~call'[c].alone /\ ~call'[c].lost
        /\ \A d \in Calls \ {c} : call'[d] = call[d]
        /\ \A d \in Calls : CallShape(d)' /\ Aloneness(d)'
    BY <1>1, Ended
  <1>4. Types' BY <1>0, <1>1, <1>3 DEF Types
  <1>5. InTurn' /\ TrueRows' /\ AskedIsSelected' /\ FormIsOfRow'
    BY <1>2 DEF InTurn, TrueRows, AskedIsSelected, FormIsOfRow
  <1>6. \A d \in Calls : ~call'[d].alone BY <1>1, <1>3 DEF IInv, Aloneness
  <1>7. \A d \in Calls : FreshAnswer(d)' /\ NoteIsFaithful(d)' /\ GrantIsStored(d)'
    BY <1>2, <1>6 DEF FreshAnswer, NoteIsFaithful, GrantIsStored
  <1>8. \A d \in Calls : LostIsNoted(d)' BY <1>2, <1>3 DEF IInv, LostIsNoted
  <1> QED BY <1>3, <1>4, <1>5, <1>7, <1>8 DEF IInv

\* Where the page is in step nothing else is under way: it is enough that all rows are true
\* and that the form is of its row.
LEMMA QuietEnd ==
    ASSUME IInv, NEW c \in Calls, ~Idle(c), Ends(c), UNCHANGED config,
           Types',
           ~outOfStep' => /\ \A d \in Calls \ {c} : Idle(d)
                          /\ \A p \in DOMAIN shown' : shown'[p] = config[p]
                          /\ ~typed' /\ selected' \in DOMAIN shown'
                               => form' = toDatetimeLocal(shown'[selected'].expires)
    PROVE  IInv'
  <1>1. /\ Idle(c)' /\ ~call'[c].alone /\ ~call'[c].lost /\ call'[c].entry.until = Never
        /\ \A d \in Calls \ {c} : call'[d] = call[d]
        /\ \A d \in Calls : CallShape(d)' /\ Aloneness(d)'
    BY Ended
  <1>2. \A d \in Calls \ {c} : Idle(d)' <=> Idle(d) BY <1>1 DEF Idle
  <1>3. ~outOfStep' => \A d \in Calls : Idle(d)' BY <1>1, <1>2
  <1>4. InTurn' /\ AskedIsSelected' BY <1>3 DEF InTurn, AskedIsSelected
  <1>5. TrueRows' BY DEF TrueRows
  <1>6. FormIsOfRow' BY DEF FormIsOfRow
  <1>7. \A d \in Calls : NoteIsFaithful(d)' /\ GrantIsStored(d)'
    BY <1>3 DEF NoteIsFaithful, GrantIsStored, Idle
  <1>8. \A d \in Calls : FreshAnswer(d)'
    <2>1. \A d \in Calls \ {c} : ~call[d].alone BY DEF IInv, Aloneness
    <2>2. \A d \in Calls : ~call'[d].alone BY <1>1, <2>1
    <2> QED BY <1>3, <2>2 DEF FreshAnswer
  <1>9. \A d \in Calls : LostIsNoted(d)'
    <2>1. \A d \in Calls \ {c} : call'[d].lost => ~Idle(d)' BY <1>1 DEF IInv, LostIsNoted, Idle
    <2>2. outOfStep' \in BOOLEAN BY DEF Types
    <2> QED BY <1>1, <1>3, <2>1, <2>2 DEF IInv, LostIsNoted
  <1> QED BY <1>1, <1>4, <1>5, <1>6, <1>7, <1>8, <1>9 DEF IInv

\* The list heals the page if nothing else was under way since it left.
LEMMA ListStep == ASSUME IInv, NEW c \in Calls, ListArrives(c) PROVE IInv'
  <1>0. Types /\ CallShape(c) /\ Aloneness(c) /\ FreshAnswer(c) BY DEF IInv
  <1>1. /\ Answered(c) /\ call[c].kind = "list" /\ shown' = call[c].answer
        /\ selected' \in (IF selected \in Proxies THEN {selected} ELSE Proxies)
        /\ form' = toDatetimeLocal(shown'[selected'].expires) /\ typed' = FALSE
        /\ Ends(c) /\ UNCHANGED config
    BY DEF ListArrives, fillDetail, page
  <1>2. outOfStep' = (outOfStep /\ ~call[c].alone) BY DEF ListArrives
  <1>3. ~Idle(c) BY <1>1 DEF Answered, Idle
  <1>4. DOMAIN shown' = Proxies BY <1>0, <1>1, <1>3 DEF Answered, CallShape
  <1>5. selected' \in Proxies BY <1>1
  <1>6. shown' \in Snapshots /\ shown'[selected'] \in Configs
    <2>1. shown' \in Snapshots BY <1>0, <1>1 DEF Types, Requests
    <2> QED BY <2>1, <1>4, <1>5, SnapshotFacts
  <1>7. form' \in Dates \cup {Beyond} BY <1>1, <1>6, DateTypes DEF Configs, Dates
  <1>8. call' \in [Calls -> Requests] BY <1>1, Ended
  <1>9. outOfStep \in BOOLEAN /\ outOfStep' \in BOOLEAN BY <1>0, <1>2 DEF Types
  <1>10. Types'
    BY <1>0, <1>1, <1>4, <1>5, <1>6, <1>7, <1>8, <1>9 DEF Types
  <1>11. ~outOfStep' => ~outOfStep \/ call[c].alone BY <1>2
  <1>12. ~outOfStep' => \A d \in Calls \ {c} : Idle(d)
    BY <1>0, <1>3, <1>11 DEF IInv, InTurn, Aloneness
  <1>13. ~outOfStep' => \A p \in DOMAIN shown' : shown'[p] = config[p]
    BY <1>0, <1>1, <1>3, <1>11 DEF FreshAnswer
  <1> QED BY <1>1, <1>3, <1>10, <1>12, <1>13, QuietEnd

\* The item heals the one row that its request was about.
LEMMA ItemStep == ASSUME IInv, NEW c \in Calls, ItemArrives(c) PROVE IInv'
  <1>0. Types /\ CallShape(c) /\ FreshAnswer(c) BY DEF IInv
  <1>1. /\ Answered(c) /\ call[c].kind # "list"
        /\ Ends(c) /\ UNCHANGED <<config, selected>>
    BY DEF ItemArrives, page
  <1>2. outOfStep' = outOfStep BY DEF ItemArrives
  <1>3. ~Idle(c) BY <1>1 DEF Answered, Idle
  <1>4. PICK p \in call[c].asked :
          /\ shown' = [shown EXCEPT ![p] = call[c].answer[p]]
          /\ form' = toDatetimeLocal(call[c].answer[p].expires) /\ typed' = FALSE
    BY DEF ItemArrives, fillDetail
  <1>5. call[c].asked = {p} /\ p \in Proxies BY <1>0, <1>1, <1>3, <1>4 DEF CallShape
  <1> DEFINE cfg == call[c].answer[p]
  <1>6. cfg \in Configs
    <2>1. call[c].answer \in Snapshots BY <1>0 DEF Types, Requests
    <2>2. p \in DOMAIN call[c].answer BY <1>1, <1>4 DEF Answered
    <2> QED BY <2>1, <2>2, SnapshotFacts
  <1>7. ~outOfStep => cfg = config[p] BY <1>0, <1>1, <1>3, <1>4 DEF FreshAnswer, Answered
  <1> HIDE DEF cfg
  <1>8. shown' = [shown EXCEPT ![p] = cfg] /\ form' = toDatetimeLocal(cfg.expires)
    BY <1>4 DEF cfg
  <1>9. PICK S \in SUBSET Proxies : shown \in [S -> Configs] BY <1>0, SnapshotDef DEF Types
  <1>10. shown' \in [S -> Configs] BY <1>6, <1>8, <1>9
  <1>11. shown' \in Snapshots BY <1>10, SnapshotDef
  <1>12. form' \in Dates \cup {Beyond} BY <1>6, <1>8, DateTypes DEF Configs, Dates
  <1>13. call' \in [Calls -> Requests] BY <1>1, Ended
  <1>14. DOMAIN shown' = DOMAIN shown BY <1>9, <1>10
  <1>15. Types' BY <1>0, <1>1, <1>2, <1>4, <1>11, <1>12, <1>13, <1>14 DEF Types
  <1>16. ~outOfStep => \A d \in Calls \ {c} : Idle(d) BY <1>3 DEF IInv, InTurn
  <1>17. ASSUME ~outOfStep PROVE \A q \in DOMAIN shown' : shown'[q] = config[q]
    <2>1. \A q \in S \ {p} : shown[q] = config[q]
      BY <1>5, <1>9, <1>16, <1>17 DEF IInv, TrueRows, Idle
    <2>2. \A q \in S : shown'[q] = IF q = p THEN cfg ELSE shown[q] BY <1>8, <1>9
    <2> QED BY <1>7, <1>10, <1>17, <2>1, <2>2
  <1>18. ASSUME ~outOfStep, selected \in DOMAIN shown'
         PROVE  form' = toDatetimeLocal(shown'[selected].expires)
    <2>1. selected = p BY <1>1, <1>3, <1>5, <1>18 DEF IInv, AskedIsSelected
    <2>2. shown'[p] = cfg BY <1>8, <1>9, <1>10, <1>18, <2>1
    <2> QED BY <1>8, <2>1, <2>2
  <1> QED BY <1>1, <1>2, <1>3, <1>15, <1>16, <1>17, <1>18, QuietEnd

\* A request that fails leaves the page out of step, unless it was a load.
LEMMA FailStep == ASSUME IInv, NEW c \in Calls, CallFails(c) PROVE IInv'
  <1>0. Types BY DEF IInv
  <1>1. /\ ~Idle(c) /\ Ends(c) /\ UNCHANGED <<config, shown, selected, form, typed>>
    BY DEF CallFails, page
  <1>2. outOfStep' = (outOfStep \/ call[c].kind # "list") BY DEF CallFails
  <1>3. outOfStep' \in BOOLEAN BY <1>0, <1>2 DEF Types
  <1>4. ~outOfStep' => ~outOfStep /\ call[c].kind = "list" BY <1>2
  <1>5. call' \in [Calls -> Requests] BY <1>1, Ended
  <1>6. Types' BY <1>0, <1>1, <1>3, <1>5 DEF Types
  <1>7. ~outOfStep' => \A d \in Calls \ {c} : Idle(d) BY <1>1, <1>4 DEF IInv, InTurn
  <1>8. ASSUME ~outOfStep'
        PROVE  \A d \in Calls : ~(call[d].pc = "reading" /\ IsSave(d)) /\
                                ~(~Idle(d) /\ call[d].kind # "list")
    BY <1>4, <1>7, <1>8 DEF Idle, IsSave
  <1>9. ASSUME ~outOfStep' PROVE \A p \in DOMAIN shown : shown[p] = config[p]
    BY <1>4, <1>8, <1>9 DEF IInv, TrueRows
  <1>10. ASSUME ~outOfStep', ~typed, selected \in DOMAIN shown
         PROVE  form = toDatetimeLocal(shown[selected].expires)
    BY <1>4, <1>8, <1>10 DEF IInv, FormIsOfRow
  <1> QED BY <1>1, <1>6, <1>7, <1>9, <1>10, QuietEnd

\* A save that the page gives up is noted, and alone no more.
LEMMA LostStep == ASSUME IInv, NEW c \in Calls, CallIsLost(c) PROVE IInv'
  <1>0. Types BY DEF IInv
  <1>1. /\ call[c].pc = "sent" /\ outOfStep'
        /\ call' = [call EXCEPT ![c].lost = TRUE, ![c].alone = FALSE, ![c].entry.until = Never]
        /\ UNCHANGED <<config, shown, selected, form, typed>>
    BY DEF CallIsLost, page
  <1>2. call \in [Calls -> Requests] BY <1>0 DEF Types
  <1>3. /\ call' \in [Calls -> Requests]
        /\ \A d \in Calls : /\ call'[d].pc = call[d].pc /\ call'[d].kind = call[d].kind
                            /\ call'[d].asked = call[d].asked /\ call'[d].answer = call[d].answer
        /\ \A d \in Calls \ {c} : call'[d] = call[d]
        /\ ~call'[c].alone /\ call'[c].entry.until = Never
    <2> DEFINE entry == [call[c].entry EXCEPT !.until = Never]
               new == [call[c] EXCEPT !.lost = TRUE, !.alone = FALSE, !.entry = entry]
    <2>1. call[c].entry \in Entries BY <1>2 DEF Requests
    <2>2. entry \in Entries /\ entry.until = Never BY <2>1, DateTypes DEF Entries
    <2>3. call' = [call EXCEPT ![c] = new] BY <1>1, <1>2 DEF Requests
    <2> HIDE DEF entry
    <2>4. /\ new \in Requests /\ new.pc = call[c].pc /\ new.kind = call[c].kind
          /\ new.asked = call[c].asked /\ new.answer = call[c].answer
          /\ new.alone = FALSE /\ new.entry = entry
      BY <1>2, <2>2 DEF Requests
    <2> HIDE DEF new
    <2> QED BY <1>2, <2>2, <2>3, <2>4
  <1>4. Types' BY <1>0, <1>1, <1>3 DEF Types
  <1>5. InTurn' /\ TrueRows' /\ AskedIsSelected' /\ FormIsOfRow'
    BY <1>1 DEF InTurn, TrueRows, AskedIsSelected, FormIsOfRow
  <1>6. \A d \in Calls : CallShape(d)' BY <1>3 DEF IInv, CallShape, Idle, IsSave
  <1>7. \A d \in Calls : Aloneness(d)' BY <1>3 DEF IInv, Aloneness, Idle
  <1>8. \A d \in Calls : LostIsNoted(d)' BY <1>1, <1>3 DEF IInv, LostIsNoted
  <1>9. \A d \in Calls : FreshAnswer(d)'
    BY <1>1, <1>3 DEF IInv, FreshAnswer, Idle
  <1>10. \A d \in Calls : NoteIsFaithful(d)' /\ GrantIsStored(d)'
    BY <1>1 DEF NoteIsFaithful, GrantIsStored
  <1> QED BY <1>4, <1>5, <1>6, <1>7, <1>8, <1>9, <1>10 DEF IInv

-------------------------------------------------------------------------------
(* The rest of the world *)

\* What somebody else saves leaves the page out of step.
LEMMA OthersStep == IInv /\ SomebodySaves => IInv'
  <1> SUFFICES ASSUME IInv, SomebodySaves PROVE IInv' OBVIOUS
  <1>0. Types BY DEF IInv
  <1>1. PICK p \in Proxies, cfg \in Others : config' = [config EXCEPT ![p] = cfg]
    BY DEF SomebodySaves
  <1>2. /\ call' = Disturbed /\ outOfStep' = TRUE
        /\ UNCHANGED <<shown, selected, form, typed>>
    BY DEF SomebodySaves, page
  <1>3. config' \in [Proxies -> Configs] BY <1>0, <1>1, PageAssumption DEF Types
  <1>4. call \in [Calls -> Requests] BY <1>0 DEF Types
  <1>5. \A d \in Calls : [call[d] EXCEPT !.alone = FALSE] \in Requests BY <1>4 DEF Requests
  <1>6. /\ call' \in [Calls -> Requests]
        /\ \A d \in Calls : call'[d] = [call[d] EXCEPT !.alone = FALSE]
    BY <1>2, <1>5 DEF Disturbed
  <1>7. \A d \in Calls :
           /\ call'[d].kind = call[d].kind /\ call'[d].asked = call[d].asked
           /\ call'[d].entry = call[d].entry /\ call'[d].answer = call[d].answer
           /\ call'[d].pc = call[d].pc /\ call'[d].alone = FALSE /\ call'[d].lost = call[d].lost
    BY <1>4, <1>6 DEF Requests
  <1>8. Types' BY <1>0, <1>2, <1>3, <1>6 DEF Types
  <1>9. InTurn' /\ TrueRows' /\ AskedIsSelected' /\ FormIsOfRow'
    BY <1>2 DEF InTurn, TrueRows, AskedIsSelected, FormIsOfRow
  <1>10. \A d \in Calls : /\ Aloneness(d)' /\ LostIsNoted(d)' /\ FreshAnswer(d)'
                         /\ NoteIsFaithful(d)' /\ GrantIsStored(d)'
    BY <1>2, <1>7 DEF IInv, LostIsNoted, Aloneness, FreshAnswer, NoteIsFaithful, GrantIsStored
  <1>11. \A d \in Calls : CallShape(d)'
    BY <1>7 DEF IInv, CallShape, Idle, IsSave
  <1> QED BY <1>8, <1>9, <1>10, <1>11 DEF IInv

\* Stuttering does.
LEMMA StutterStep == ASSUME IInv, UNCHANGED vars PROVE IInv'
  <1>0. UNCHANGED <<config, shown, selected, form, typed, call, outOfStep>> BY DEF vars, page
  <1>1. Types' BY <1>0 DEF IInv, Types
  <1>2. InTurn' /\ TrueRows' /\ AskedIsSelected' /\ FormIsOfRow'
    BY <1>0 DEF IInv, InTurn, TrueRows, AskedIsSelected, FormIsOfRow, Idle, IsSave
  <1>3. \A c \in Calls : /\ CallShape(c)' /\ Aloneness(c)' /\ LostIsNoted(c)'
                        /\ FreshAnswer(c)' /\ GrantIsStored(c)'
    BY <1>0 DEF IInv, CallShape, Aloneness, LostIsNoted, FreshAnswer, GrantIsStored, Idle, IsSave
  <1>4. \A c \in Calls : NoteIsFaithful(c)' BY <1>0 DEF IInv, NoteIsFaithful, NoteFits
  <1> QED BY <1>1, <1>2, <1>3, <1>4 DEF IInv

\* Every step keeps the invariant.
LEMMA Step == IInv /\ [Next]_vars => IInv'
  <1> SUFFICES ASSUME IInv, [Next]_vars PROVE IInv' OBVIOUS
  <1>1. CASE PageStep
    BY <1>1, LoadStep, SelectStep, DisableStep, GrantStep, NoteStep, EditStep DEF PageStep
  <1>2. ASSUME NEW c \in Calls, CallStep(c) PROVE IInv'
    BY <1>2, LateStoreStep, StoreStep, ReadStep, ListStep, ItemStep, FailStep, LostStep DEF CallStep
  <1> QED BY <1>1, <1>2, OthersStep, StutterStep DEF Next

\* It always holds.
LEMMA Invariance == Spec => []IInv
  <1> QED BY Initially, Step, PTL DEF Spec

-------------------------------------------------------------------------------
(* Theorems *)

\* Every variable keeps its type, for any number of requests and proxies.
THEOREM TypeCorrect == Spec => []TypeOK
  <1>1. IInv => TypeOK BY TypesAreTypeOK DEF IInv
  <1> QED BY <1>1, Invariance, PTL

\* A page that waits for nothing shows what the server has, as long as no requests
\* overlapped, none failed and nobody else saved, or once a load ran undisturbed after that
\* (admin_ui.go:589-636, 748), and no save that the page gave up can still be stored
\* (http.go:423).
THEOREM PageShowsTheServer == Spec => []PageIsTrue
  <1>1. IInv => PageIsTrue BY DEF IInv, TrueRows, PageIsTrue, AllIdle, Idle
  <1> QED BY <1>1, Invariance, PTL

\* A proxy that the page reports as granted may be used until the moment that was meant, by
\* the wall clock of the browser and without its seconds, under the same conditions and
\* whatever the difference of the zones (admin_ui.go:655).
THEOREM GrantsAreByTheWallClock == Spec => []GrantIsByTheWallClock
  <1>1. ASSUME IInv PROVE GrantIsByTheWallClock
    <2> SUFFICES ASSUME NEW c \in Calls, Answered(c), ~outOfStep, call[c].entry.until # Never,
                        NEW p \in call[c].asked
                 PROVE  IsWallClockOf(call[c].answer[p].expires, call[c].entry.until)
      BY DEF GrantIsByTheWallClock
    <2>1. call[c].pc = "reading" /\ ~Idle(c) /\ p \in DOMAIN call[c].answer
      BY DEF Answered, Idle
    <2>2. call[c].answer[p] = config[p] BY <1>1, <2>1 DEF IInv, FreshAnswer
    <2>3. config[p].expires = toDatetimeLocal(call[c].entry.until)
      BY <1>1, <2>1 DEF IInv, GrantIsStored
    <2>4. call \in [Calls -> Requests] /\ config \in [Proxies -> Configs] BY <1>1 DEF IInv, Types
    <2>5. call[c].entry.until \in Dates BY <2>4 DEF Requests, Entries
    <2>6. p \in Proxies BY <2>4 DEF Requests
    <2>7. config[p].expires \in Dates BY <2>4, <2>6 DEF Configs, Dates
    <2> QED BY <2>2, <2>3, <2>5, <2>7, DateTypes
  <1> QED BY <1>1, Invariance, PTL

\* Only the server's handler takes a save from sent to reading.
LEMMA OnlyStored ==
    ASSUME IInv, [Next]_vars, NEW c \in Calls, call[c].pc = "sent", call'[c].pc = "reading"
    PROVE  StoreEntry(c)
  <1>0. call \in [Calls -> Requests] BY DEF IInv, Types
  <1>1. ASSUME NEW kind, NEW asked, NEW entry, Fetch(kind, asked, entry) PROVE FALSE
    <2>1. PICK d \in Calls : Idle(d) /\ \A e \in Calls \ {d} : call'[e].pc = Disturbed[e].pc
      BY <1>0, <1>1 DEF Fetch, Disturbed
    <2>2. \A e \in Calls \ {d} : call'[e].pc = call[e].pc BY <1>0, <2>1 DEF Disturbed, Requests
    <2> QED BY <2>1, <2>2 DEF Idle
  <1>2. ~PageStep
    BY <1>1 DEF PageStep, loadProxies, Disable, Permit, saveProxy, selectProxy, EditDate, Grant,
                Save
  <1>3. ~SomebodySaves BY <1>0 DEF SomebodySaves, Disturbed, Requests
  <1>4. ~UNCHANGED vars BY DEF vars
  <1>5. PICK d \in Calls : CallStep(d) BY <1>2, <1>3, <1>4 DEF Next
  <1>6. ASSUME NEW p \in Proxies, ReadEntry(d, p) PROVE FALSE
    BY <1>0, <1>6 DEF ReadEntry, Requests
  <1>7. ASSUME Ends(d) PROVE FALSE BY <1>0, <1>7 DEF Ends, NoCall
  <1>71. ASSUME CallIsLost(d) PROVE FALSE BY <1>0, <1>71 DEF CallIsLost, Requests
  <1>8. StoreEntry(d)
    BY <1>5, <1>6, <1>7, <1>71 DEF CallStep, ListArrives, ItemArrives, CallFails
  <1>9. d = c BY <1>0, <1>8 DEF StoreEntry, Requests
  <1> QED BY <1>8, <1>9

\* Saving remark and date leaves the flag as the server has it, under the same conditions, and
\* moves a date that nobody typed by the difference of the zones and its seconds
\* (admin_ui.go:658-672).
THEOREM NotesKeepTheRest == Spec => NoteKeepsTheRest
  <1> DEFINE Kept == \A c \in Calls :
         /\ call[c].kind = "note" /\ call[c].pc = "sent" /\ call'[c].pc = "reading"
         /\ ~outOfStep
         => \A p \in call[c].asked :
              /\ config'[p].enabled = config[p].enabled
              /\ ~call[c].entry.typed => IsWallClockOf(config'[p].expires, config[p].expires)
  <1>1. ASSUME IInv, [Next]_vars PROVE Kept
    <2> SUFFICES ASSUME NEW c \in Calls, call[c].kind = "note", call[c].pc = "sent",
                        call'[c].pc = "reading", ~outOfStep, NEW p \in call[c].asked
                 PROVE  /\ config'[p].enabled = config[p].enabled
                        /\ ~call[c].entry.typed
                              => IsWallClockOf(config'[p].expires, config[p].expires)
      OBVIOUS
    <2>1. Types /\ CallShape(c) /\ NoteIsFaithful(c) BY <1>1 DEF IInv
    <2>2. StoreEntry(c) BY <1>1, OnlyStored
    <2>3. PICK q \in Proxies :
                 /\ call[c].asked = {q}
                 /\ config' \in [Proxies -> Configs]
                 /\ config'[q].enabled = call[c].entry.enabled
                 /\ config'[q].expires = IF call[c].entry.permanent THEN Never
                                         ELSE call[c].entry.date
      BY <2>1, <2>2, Stored
    <2>4. p = q BY <2>3
    <2>5. NoteFits(call[c].entry, p) BY <2>1, <2>3 DEF NoteIsFaithful
    <2>6. config'[p].enabled = config[p].enabled BY <2>3, <2>4, <2>5 DEF NoteFits
    <2>7. config[p] \in Configs /\ config'[p] \in Configs BY <2>1, <2>3, <2>4 DEF Types
    <2>8. config[p].expires \in Dates /\ config'[p].expires \in Dates BY <2>7 DEF Configs, Dates
    <2>9. ~call[c].entry.typed => config'[p].expires = toDatetimeLocal(config[p].expires)
      BY <2>3, <2>4, <2>5 DEF NoteFits
    <2> QED BY <2>6, <2>8, <2>9, DateTypes
  <1>2. Spec => [][Kept]_vars
    BY <1>1, Invariance, PTL DEF Spec
  <1> QED BY <1>2 DEF NoteKeepsTheRest
===============================================================================
