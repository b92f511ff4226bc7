---------------------------- MODULE AdminCreation ----------------------------
(***************************************************************************)
(* The admin site's creation modal: a single market, an event shell with   *)
(* its child markets and their publication, or a ladder of markets.  Every *)
(* opening mounts an instance with signals and tasks of its own; closing   *)
(* it stops no call, and an answer still runs the handler that waited for  *)
(* it, over the signals of its own instance and the one saved event.  The  *)
(* backend (server) is external: it acts when it answers.  A modal is      *)
(* opened from the drawer, or from the page of its event.                  *)
(***************************************************************************)
EXTENDS Site

CONSTANTS MaxModals,       \* bound: modals opened
          MaxSubmissions,  \* bound: calls made
          MaxDrafts        \* bound: markets drafted at once

VARIABLES server,      \* the publication status of every event, or None
          saved,       \* the active event in local storage
          modals,      \* the instances mounted, in order
          openModal,   \* the instance on screen, or 0
          drawer,      \* closed, or the list it shows
          calls,       \* the calls still out
          submitted    \* the calls made

creationVars == <<server, saved, modals, openModal, drawer, calls, submitted>>

ModalType == {"single_binary", "multi_market_event", "ladder_market"}

Step == {"event_shell", "manual_markets", "ladder_markets", "publish_event",
         "publish_markets"}

Filter == {"draft", "published", "all"}

\* The calls of the tasks; only list may overlap with itself.
Task == {"list", "market", "event", "children", "ladder", "publishEvent", "publishChildren"}

NoEvent == [id |-> None, slug |-> None, status |-> None]

\* A draft of a child market, and a form, is the set of its fields filled in.
NewDrafts == <<{}>>

NewModal(type) ==
    [type |-> type, step |-> "event_shell", created |-> NoEvent, remembered |-> None,
     publishNow |-> FALSE, drafts |-> NewDrafts, filter |-> "draft", list |-> {},
     pending |-> {}]

CreationInit ==
    /\ \E e \in {None} \cup Event :
          /\ server = [x \in Event |-> IF x = e THEN "draft" ELSE None]
          /\ saved \in {None, [id |-> e, slug |-> e, status |-> "draft"]}
          /\ e = None => saved = None
    /\ modals = <<>>
    /\ openModal = 0
    /\ drawer = "closed"
    /\ calls = {}
    /\ submitted = 0

EventIsPublished(modal) == modal.created.status = "published"

\* rememberActiveEvent: the instance's copy; it is saved too.
Remember(modal, event) ==
    IF event.id = None THEN modal ELSE [modal EXCEPT !.remembered = event]

Saving(event) == IF event.id = None THEN saved ELSE event

\* resumeEvent with the step every caller gives.
Resume(modal, event) ==
    Remember([modal EXCEPT !.created = event, !.step = "manual_markets"], event)

\* A call is told from the others by its number.
CreationCall(i, task, event, publish) ==
    [number |-> submitted + 1, modal |-> i, task |-> task, event |-> event,
     publish |-> publish]

\* useAsyncTask's run: the task is pending.
Run(modal, task) == [modal EXCEPT !.pending = @ \cup {task}]

Submit(i, modal, task, event, publish) ==
    /\ submitted < MaxSubmissions
    /\ submitted' = submitted + 1
    /\ calls' = calls \cup {CreationCall(i, task, event, publish)}
    /\ modals' = [modals EXCEPT ![i] = Run(modal, task)]
    /\ UNCHANGED <<server, openModal>>

(***************************************************************************)
(* Opening and closing                                                     *)
(***************************************************************************)
\* onMount of the multi-market modal reads the saved event, resumes the event
\* it was opened for, and asks for the recovery list.
OpenModal(type, initial) ==
    LET i       == Len(modals) + 1
        mounted == [NewModal(type) EXCEPT !.remembered = saved]
        resumed == IF initial = None THEN mounted
                   ELSE Resume(mounted, [id |-> initial, slug |-> initial,
                                         status |-> server[initial]])
    IN  /\ openModal = 0
        /\ drawer = IF initial = None THEN "create_market" ELSE "closed"
        /\ Len(modals) < MaxModals
        /\ openModal' = i
        /\ IF type = "multi_market_event"
           THEN /\ submitted < MaxSubmissions
                /\ submitted' = submitted + 1
                /\ calls' = calls \cup {CreationCall(i, "list", "draft", FALSE)}
                /\ modals' = Append(modals, Run(resumed, "list"))
                /\ saved' = Saving(resumed.created)
           ELSE /\ initial = None
                /\ modals' = Append(modals, NewModal(type))
                /\ UNCHANGED <<saved, calls, submitted>>
        /\ UNCHANGED server

CloseModal ==
    /\ openModal # 0
    /\ openModal' = 0
    /\ UNCHANGED <<server, saved, modals, calls, submitted>>

DrawerBecomes(view) ==
    /\ openModal = 0
    /\ Len(modals) < MaxModals
    /\ drawer' = view
    /\ UNCHANGED <<server, saved, modals, openModal, calls, submitted>>

OpenDrawer == drawer = "closed" /\ DrawerBecomes("menu")

\* From the menu to the types of market, and back.
TurnDrawer == \E view \in {"menu", "create_market"} \ {drawer} :
    drawer # "closed" /\ DrawerBecomes(view)

\* The button and Escape; or another page, which takes an open modal along.
CloseDrawer ==
    /\ drawer # "closed"
    /\ drawer' = "closed"
    /\ openModal' = 0
    /\ UNCHANGED <<server, saved, modals, calls, submitted>>

Shows(i, type, step) ==
    /\ i = openModal
    /\ modals[i].type = type
    /\ modals[i].step = step

(***************************************************************************)
(* The recovery list, on screen while the instance has no event.           *)
(***************************************************************************)
\* Mutant of Recovers: the list stays on screen.
RecoversAlways(i) == i = openModal /\ modals[i].type = "multi_market_event"

Recovers(i) ==
    /\ i = openModal
    /\ modals[i].type = "multi_market_event"
    /\ modals[i].created.id = None

\* A filter can be chosen while a list is still being read.
ChooseFilter(i, filter) ==
    /\ Recovers(i)
    /\ Submit(i, [modals[i] EXCEPT !.filter = filter], "list", filter, FALSE)
    /\ UNCHANGED saved

RefreshList(i) ==
    /\ Recovers(i)
    /\ "list" \notin modals[i].pending
    /\ Submit(i, modals[i], "list", modals[i].filter, FALSE)
    /\ UNCHANGED saved

ClearRemembered(i) ==
    /\ Recovers(i)
    /\ modals[i].remembered # None
    /\ modals' = [modals EXCEPT ![i].remembered = None]
    /\ saved' = None
    /\ UNCHANGED <<server, openModal, calls, submitted>>

\* The saved event, or one of the list, is taken up again.
ResumeEvent(i) ==
    /\ Recovers(i)
    /\ \E event \in modals[i].list \cup ({modals[i].remembered} \ {None}) :
          /\ modals' = [modals EXCEPT ![i] = Resume(@, event)]
          /\ saved' = event
    /\ UNCHANGED <<server, openModal, calls, submitted>>

(***************************************************************************)
(* The steps of an event                                                   *)
(***************************************************************************)
GoToStep(i, step) ==
    /\ i = openModal
    /\ modals[i].created.id # None
    /\ modals[i].step # step
    /\ modals' = [modals EXCEPT ![i].step = step]
    /\ UNCHANGED <<server, saved, openModal, calls, submitted>>

DraftsBecome(i, drafts) ==
    /\ Shows(i, "multi_market_event", "manual_markets")
    /\ modals' = [modals EXCEPT ![i].drafts = drafts]
    /\ UNCHANGED <<server, saved, openModal, calls, submitted>>

AddDraft(i) ==
    /\ Len(modals[i].drafts) < MaxDrafts
    /\ DraftsBecome(i, Append(modals[i].drafts, {}))

\* The last draft cannot be removed.
RemoveDraft(i, n) ==
    /\ Len(modals[i].drafts) > 1
    /\ DraftsBecome(i, RemoveAt(modals[i].drafts, n))

FillDraft(i, n, fields) ==
    /\ modals[i].drafts[n] # fields
    /\ DraftsBecome(i, [modals[i].drafts EXCEPT ![n] = fields])

TogglePublishNow(i) ==
    /\ Shows(i, "multi_market_event", "manual_markets")
    /\ EventIsPublished(modals[i])
    /\ modals' = [modals EXCEPT ![i].publishNow = ~@]
    /\ UNCHANGED <<server, saved, openModal, calls, submitted>>

(***************************************************************************)
(* The forms.  A button is disabled while its own task is pending; a form  *)
(* whose payload cannot be built reports it, and is not sent.              *)
(***************************************************************************)
\* What a payload cannot be built without: fields left blank, or filled in with
\* spaces or with no date, are not in a form.
MarketFields == {"title", "slug", "category_slug", "rules", "end_time", "oracle_address"}

EventFields == {"title", "slug", "category_slug", "rules", "group_key", "series_key"}

LadderFields == {"event_id", "underlying", "deadline_label", "end_time", "oracle_address"}

DraftFields == {"label", "slug", "question", "end_time", "oracle_address"}

Thresholds == {"up_thresholds", "down_thresholds"}

IsMarketForm(form) == MarketFields \subseteq form

IsEventForm(form) == EventFields \subseteq form

IsLadderForm(form) == LadderFields \subseteq form /\ form \cap Thresholds # {}

AreDrafts(drafts) == drafts # <<>> /\ \A n \in DOMAIN drafts : DraftFields \subseteq drafts[n]

IsChildrenSubmission(modal) == modal.created.id # None /\ AreDrafts(modal.drafts)

Idle(i, task) == task \notin modals[i].pending

SubmitMarket(i, form) ==
    /\ i = openModal /\ modals[i].type = "single_binary"
    /\ Idle(i, "market")
    /\ IsMarketForm(form)
    /\ Submit(i, modals[i], "market", None, FALSE)
    /\ UNCHANGED saved

SubmitEvent(i, form, publish) ==
    /\ Shows(i, "multi_market_event", "event_shell")
    /\ Idle(i, "event")
    /\ IsEventForm(form)
    /\ Submit(i, modals[i], "event", None, publish)
    /\ UNCHANGED saved

\* Publishing with the creation needs an event that is published.
SubmitChildren(i) ==
    /\ Shows(i, "multi_market_event", "manual_markets")
    /\ IsChildrenSubmission(modals[i])
    /\ modals[i].publishNow => EventIsPublished(modals[i])
    /\ Idle(i, "children")
    /\ Submit(i, modals[i], "children", modals[i].created.id, modals[i].publishNow)
    /\ UNCHANGED saved

\* The ladder of the event, or the ladder of any event the admin names.
SubmitLadder(i, form, event, publish) ==
    /\ \/ /\ Shows(i, "multi_market_event", "ladder_markets")
          /\ event = modals[i].created.id
          /\ publish => EventIsPublished(modals[i])
       \/ i = openModal /\ modals[i].type = "ladder_market"
    /\ Idle(i, "ladder")
    /\ IsLadderForm(form)
    /\ Submit(i, modals[i], "ladder", event, publish)
    /\ UNCHANGED saved

SubmitPublishEvent(i) ==
    /\ Shows(i, "multi_market_event", "publish_event")
    /\ Idle(i, "publishEvent")
    /\ Submit(i, modals[i], "publishEvent", modals[i].created.id, FALSE)
    /\ UNCHANGED saved

SubmitPublishChildren(i) ==
    /\ Shows(i, "multi_market_event", "publish_markets")
    /\ EventIsPublished(modals[i])
    /\ Idle(i, "publishChildren")
    /\ Submit(i, modals[i], "publishChildren", modals[i].created.id, FALSE)
    /\ UNCHANGED saved

(***************************************************************************)
(* The answers.  A task is no longer pending when one of its calls ends.   *)
(***************************************************************************)
TaskEnded(call) == [modals[call.modal] EXCEPT !.pending = @ \ {call.task}]

Answer(call, task) ==
    /\ call.task = task
    /\ calls' = calls \ {call}
    /\ UNCHANGED <<openModal, submitted>>

CallFails(call) ==
    /\ Answer(call, call.task)
    /\ modals' = [modals EXCEPT ![call.modal] = TaskEnded(call)]
    /\ UNCHANGED <<server, saved>>

\* Whichever list comes last is shown, whatever filter is chosen by then.
ListRead(call) ==
    LET listed == {e \in Event : IF call.event = "all" THEN server[e] # None
                                      ELSE server[e] = call.event}
    IN  /\ Answer(call, "list")
        /\ modals' = [modals EXCEPT ![call.modal] = [TaskEnded(call) EXCEPT
                         !.list = {[id |-> e, slug |-> e, status |-> server[e]] : e \in listed}]]
        /\ UNCHANGED <<server, saved>>

MarketCreated(call) ==
    /\ Answer(call, "market")
    /\ modals' = [modals EXCEPT ![call.modal] = TaskEnded(call)]
    /\ UNCHANGED <<server, saved>>

\* The instance goes on with the event it has just created.
EventCreated(call, e) ==
    LET event == [id |-> e, slug |-> e,
                  status |-> IF call.publish THEN "published" ELSE "draft"]
    IN  /\ Answer(call, "event")
        /\ server[e] = None
        /\ server' = [server EXCEPT ![e] = event.status]
        /\ modals' = [modals EXCEPT ![call.modal] = Resume(TaskEnded(call), event)]
        /\ saved' = event

\* Where an instance goes once markets were created and not published.
AfterCreation(modal) ==
    [modal EXCEPT !.step =
        IF EventIsPublished(modal) THEN "publish_markets" ELSE "publish_event"]

\* The event of the call is remembered, with the status of the current one.
ChildrenCreated(call) ==
    LET event == [id |-> call.event, slug |-> call.event,
                  status |-> modals[call.modal].created.status]
        after == [Remember(TaskEnded(call), event) EXCEPT !.drafts = NewDrafts]
    IN  /\ Answer(call, "children")
        /\ modals' = [modals EXCEPT ![call.modal] =
                         IF after.publishNow THEN after ELSE AfterCreation(after)]
        /\ saved' = Saving(event)
        /\ UNCHANGED server

LadderCreated(call) ==
    LET event == [id |-> call.event, slug |-> call.event,
                  status |-> modals[call.modal].created.status]
        after == Remember(TaskEnded(call), event)
    IN  /\ Answer(call, "ladder")
        /\ modals' = [modals EXCEPT ![call.modal] =
                         IF after.type = "multi_market_event" /\ ~call.publish
                         THEN AfterCreation(after) ELSE after]
        /\ saved' = Saving(event)
        /\ UNCHANGED server

\* A publication: slug and status are those of the event published, the id is
\* that of the event the instance works on by now.
CreatedEventIsPublished(modal, call) ==
    LET event == [id |-> modal.created.id, slug |-> call.event, status |-> "published"]
    IN  Remember([modal EXCEPT !.created = event], event)

CreatedEventPublished(call) ==
    LET after == CreatedEventIsPublished(TaskEnded(call), call) IN
    /\ Answer(call, "publishEvent")
    /\ server' = [server EXCEPT ![call.event] = "published"]
    /\ modals' = [modals EXCEPT ![call.modal] = [after EXCEPT !.step = "publish_markets"]]
    /\ saved' = Saving(after.created)

ChildrenPublished(call) ==
    LET after == CreatedEventIsPublished(TaskEnded(call), call) IN
    /\ Answer(call, "publishChildren")
    /\ server[call.event] = "published"
    /\ modals' = [modals EXCEPT ![call.modal] = after]
    /\ saved' = Saving(after.created)
    /\ UNCHANGED server

\* A form filled in, but for one field or the thresholds.
Forms(fields) == {fields, fields \ Thresholds} \cup {fields \ {f} : f \in fields}

CreationAdmin ==
    \/ \E type \in ModalType, initial \in {None} \cup Event :
          /\ initial # None => server[initial] # None
          /\ OpenModal(type, initial)
    \/ CloseModal
    \/ \E i \in DOMAIN modals :
          \/ \E filter \in Filter : ChooseFilter(i, filter)
          \/ RefreshList(i)
          \/ ClearRemembered(i)
          \/ ResumeEvent(i)
          \/ \E step \in Step : GoToStep(i, step)
          \/ AddDraft(i)
          \/ \E n \in DOMAIN modals[i].drafts :
                \/ RemoveDraft(i, n)
                \/ \E fields \in {DraftFields} : FillDraft(i, n, fields)
          \/ TogglePublishNow(i)
          \/ \E form \in Forms(MarketFields) : SubmitMarket(i, form)
          \/ \E form \in Forms(EventFields), publish \in BOOLEAN : SubmitEvent(i, form, publish)
          \/ SubmitChildren(i)
          \/ \E form \in Forms(LadderFields \cup Thresholds), event \in Event, publish \in BOOLEAN :
                SubmitLadder(i, form, event, publish)
          \/ SubmitPublishEvent(i)
          \/ SubmitPublishChildren(i)

CreationAnswer ==
    \E call \in calls :
        \/ CallFails(call)
        \/ ListRead(call)
        \/ MarketCreated(call)
        \/ \E e \in Event : EventCreated(call, e)
        \/ ChildrenCreated(call)
        \/ LadderCreated(call)
        \/ CreatedEventPublished(call)
        \/ ChildrenPublished(call)

CreationNext ==
    \/ OpenDrawer \/ TurnDrawer \/ CloseDrawer
    \/ UNCHANGED drawer /\ (CreationAdmin \/ CreationAnswer)

CreationSpec == CreationInit /\ [][CreationNext]_creationVars

\* While a form's call is out, the same instance does not send it again: an
\* event, a market or a publication is asked for once per submission, however
\* the admin walks through the steps and whatever lists are read meanwhile.
OneSubmissionAtATime ==
    \A task \in Task \ {"list"}, i \in DOMAIN modals :
        Cardinality({call \in calls : call.modal = i /\ call.task = task}) <= 1

\* An instance that works on an event leaves it only for an event it has just
\* created: no list read late and no saved event moves the admin's next
\* markets to another event.
KeepsItsEvent ==
    [][\A i \in DOMAIN modals :
          /\ modals[i].created.id # None
          /\ modals'[i].created.id # modals[i].created.id
          => \E call \in calls \ calls' :
                /\ call.modal = i
                /\ call.task = "event"
                /\ server[modals'[i].created.id] = None]_creationVars
=============================================================================
