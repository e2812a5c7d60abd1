----------------------------- MODULE GuiSession -----------------------------
(***************************************************************************)
(* The tabs of the main window and the clients that run behind them.  A    *)
(* client runs as a job of the trio thread and signals the Qt thread       *)
(* through a queue of posted events, which Qt delivers before it handles   *)
(* the user's next input.  A question is a dialog: it keeps the user from  *)
(* the window, not the events.                                             *)
(***************************************************************************)
EXTENDS Naturals, FiniteSets, Sequences

CONSTANTS
  GuiDevices,   \* devices of the user on this machine
  NoDevice,     \* no device
  MaxInstances, \* bound: InstanceWidget objects; one without tab, job and question is used anew
  MaxTabs,      \* bound: tabs the user opens
  MaxCrashes    \* bound: clients that end with an error once they were ready

ASSUME GuiAssumption ==
  NoDevice \notin GuiDevices /\ MaxInstances \in Nat \ {0} /\ {MaxTabs, MaxCrashes} \subseteq Nat

VARIABLES
  tabs,       \* tab_center: the instances that have a tab
  instance,   \* state of each InstanceWidget
  connectedDevices,  \* guardataApp.connected_devices
  posted,     \* signals of the trio thread to the Qt thread
  question,   \* the question before a tab is closed: its index and its instance, or none
  crashes,    \* errors of ready clients so far
  shifted,    \* ghost: a tab left the bar behind an open question
  erred       \* ghost: the devices whose client ended with an error

guiVars == <<tabs, instance, connectedDevices, posted, question, crashes, shifted, erred>>

-----------------------------------------------------------------------------
(* The bar of tabs.  A window is the pair of the tabs and the instances.  *)

Instances == 1 .. MaxInstances
Window == [tabs |-> tabs, instance |-> instance]
SetWindow(w) == tabs' = w.tabs /\ instance' = w.instance

NewInstance == [text |-> "", widget |-> "none", job |-> "none", device |-> NoDevice, client |-> NoDevice]
Ended(i) == instance[i].job \in {"none", "ok", "failed"}

\* The instances that have a tab of the bar.
InBar(bar) == {bar[k] : k \in DOMAIN bar}

\* _get_login_tab_index: a tab is known by its text.
LoginTabs(w) == {i \in InBar(w.tabs) : w.instance[i].text = "login"}

Unused(w, i) ==
  i \notin InBar(w.tabs) /\ w.instance[i].job = "none" /\ (question # <<>> => question[2] # i)
NextInstance(w, i) == CHOOSE n \in Instances : Unused(w, n) /\ n # i /\ \A m \in Instances \ {i} : Unused(w, m) => n <= m

\* The bound of the instances leaves one for a new tab.
InstanceIsLeft(i) == \E n \in Instances \ {i} : Unused(Window, n)

\* add_new_tab
AddNewTab(w, i, text, widget) ==
  [tabs |-> Append(w.tabs, i),
   instance |-> [w.instance EXCEPT ![i] = [NewInstance EXCEPT !.text = text, !.widget = widget]]]

\* switch_to_login_tab, add_instance: one login tab at most.
SwitchToLoginTab(w, but) ==
  IF LoginTabs(w) # {} THEN w ELSE AddNewTab(w, NextInstance(w, but), "login", "login")

\* reload_login_devices: the login tab gets a new login widget.
ReloadLoginDevices(w) ==
  [w EXCEPT !.instance = [i \in Instances |->
     IF i \in LoginTabs(w) THEN [w.instance[i] EXCEPT !.widget = "login"] ELSE w.instance[i]]]

\* removeTab: the tabs behind it move up.
RemoveTab(bar, k) == [j \in 1 .. Len(bar) - 1 |-> IF j < k THEN bar[j] ELSE bar[j + 1]]
IndexOf(bar, i) == CHOOSE k \in DOMAIN bar : bar[k] = i
WithoutTab(w, i) == [w EXCEPT !.tabs = RemoveTab(w.tabs, IndexOf(w.tabs, i))]

\* on_tab_state_changed: a tab that logged out leaves, and a login tab replaces it.
OnTabLogout(w, i) ==
  IF i \in InBar(w.tabs) THEN SwitchToLoginTab(WithoutTab(w, i), i) ELSE w

\* on_logged_out: the bar hears of it; the instance, which has no tab any more, is forgotten.
OnLoggedOut(w, i) == [OnTabLogout(w, i) EXCEPT !.instance[i] = NewInstance]

-----------------------------------------------------------------------------
(* The jobs of the trio thread *)

Post(signal, i) == posted' = Append(posted, <<signal, i>>)

\* _do_run_client: the client is ready.
ClientReady(i) ==
  /\ instance[i].job = "starting"
  /\ instance' = [instance EXCEPT ![i].job = "running"] /\ Post("ready", i)
  /\ UNCHANGED <<tabs, connectedDevices, question, crashes, shifted, erred>>

\* It raises: before it is ready, or later.
ClientFails(i) ==
  /\ instance[i].job \in {"starting", "running"}
  /\ instance[i].job = "running" => crashes < MaxCrashes
  /\ crashes' = IF instance[i].job = "running" THEN crashes + 1 ELSE crashes
  /\ instance' = [instance EXCEPT ![i].job = "failed"] /\ Post("error", i)
  /\ UNCHANGED <<tabs, connectedDevices, question, shifted, erred>>

\* cancel_and_join: the Qt thread waits; the cancellation is swallowed and the job is ok.
CancelAndJoin(w, i) ==
  IF w.instance[i].job \in {"starting", "running"}
  THEN SetWindow([w EXCEPT !.instance[i].job = "ok"]) /\ Post("success", i)
  ELSE SetWindow(w) /\ UNCHANGED posted

-----------------------------------------------------------------------------
(* The signals, in the Qt thread *)

Delivers(signal, i) == posted # <<>> /\ Head(posted) = <<signal, i>> /\ posted' = Tail(posted)

\* on_run_client_ready, on_logged_in
OnRunClientReady(i) ==
  /\ Delivers("ready", i)
  /\ LET d == instance[i].device
     IN /\ connectedDevices' = connectedDevices \cup {d}
        /\ instance' = [instance EXCEPT ![i].client = d, ![i].widget = "central",
                          ![i].text = IF i \in InBar(tabs) THEN "name" ELSE @]
  /\ UNCHANGED <<tabs, question, crashes, shifted, erred>>

NoteShift(i) == shifted' = (shifted \/ (question # <<>> /\ i \in InBar(tabs)))

\* on_client_run_done
Released(i) == connectedDevices \ {instance[i].client}

OnClientRunDone(i) ==
  /\ Delivers("success", i) /\ InstanceIsLeft(i)
  /\ connectedDevices' = Released(i)
  /\ SetWindow(OnLoggedOut(Window, i))
  /\ NoteShift(i) /\ UNCHANGED <<question, crashes, erred>>

\* on_client_run_error: the device is not removed from the connected ones.
OnClientRunError(i) ==
  /\ Delivers("error", i) /\ InstanceIsLeft(i)
  /\ SetWindow(OnLoggedOut(Window, i))
  /\ erred' = erred \cup ({instance[i].client} \ {NoDevice})
  /\ NoteShift(i) /\ UNCHANGED <<connectedDevices, question, crashes>>

-----------------------------------------------------------------------------
(* The user *)

UserIsFree == question = <<>> /\ posted = <<>>

\* login_with_password and start_client, which refuses a second job; any failure leaves
\* everything as it is.
CanStart(w, i, d) == d \notin connectedDevices /\ w.instance[i].job = "none" /\ w.instance[i].client = NoDevice
StartClient(w, i, d) == [w EXCEPT !.instance[i].job = "starting", !.instance[i].device = d]

Login(i, d) ==
  /\ UserIsFree /\ i \in InBar(tabs) /\ instance[i].widget = "login"
  /\ CanStart(Window, i, d) /\ SetWindow(StartClient(Window, i, d))
  /\ UNCHANGED <<connectedDevices, posted, question, crashes, shifted, erred>>

\* try_login, at the end of a claim or a bootstrap: in the login tab, otherwise in a new
\* tab, which shows nothing until the client is ready.
TryLogin(d) ==
  /\ UserIsFree /\ d \notin connectedDevices /\ \A i \in Instances : instance[i].job # "none" => instance[i].device # d
  /\ LET login == LoginTabs(Window)
         i == IF login # {} THEN CHOOSE j \in login : TRUE ELSE NextInstance(Window, 0)
         w == IF login # {} THEN ReloadLoginDevices(Window) ELSE AddNewTab(Window, i, "", "none")
     IN /\ login = {} => Len(tabs) < MaxTabs /\ InstanceIsLeft(0)
        /\ SetWindow(IF CanStart(w, i, d) THEN StartClient(w, i, d) ELSE w)
  /\ UNCHANGED <<connectedDevices, posted, question, crashes, shifted, erred>>

AddInstance ==
  /\ UserIsFree /\ LoginTabs(Window) = {} /\ Len(tabs) < MaxTabs /\ InstanceIsLeft(0)
  /\ SetWindow(SwitchToLoginTab(Window, 0))
  /\ UNCHANGED <<connectedDevices, posted, question, crashes, shifted, erred>>

\* logout, from the menu of the central widget.
Logout(i) ==
  /\ UserIsFree /\ i \in InBar(tabs) /\ instance[i].widget = "central"
  /\ CancelAndJoin(Window, i)
  /\ UNCHANGED <<connectedDevices, question, crashes, shifted, erred>>

\* _close_tab: the tab that has the index now leaves; the instance is the one that had it
\* when the tab was to be closed.
CloseAtWithoutLogout(k, i, logged) ==
  SetWindow([Window EXCEPT !.tabs = IF k \in DOMAIN tabs THEN RemoveTab(tabs, k) ELSE tabs]) /\ UNCHANGED posted
CloseAt(k, i, logged) ==
  LET w == [Window EXCEPT !.tabs = IF k \in DOMAIN tabs THEN RemoveTab(tabs, k) ELSE tabs]
  IN IF logged THEN CancelAndJoin(ReloadLoginDevices(w), i)
     ELSE SetWindow(ReloadLoginDevices([w EXCEPT !.instance[i] = NewInstance])) /\ UNCHANGED posted

\* close_tab: the last tab cannot be closed; a client that is not ready yet has no device
\* for the question, which is then not asked.
CloseTab(k) ==
  /\ UserIsFree /\ Len(tabs) > 1 /\ k \in DOMAIN tabs
  /\ LET i == tabs[k]
     IN \/ /\ instance[i].job # "none" /\ instance[i].client # NoDevice
           /\ question' = <<k, i>> /\ UNCHANGED <<tabs, instance, posted>>
        \/ instance[i].job = "none" /\ CloseAt(k, i, FALSE) /\ UNCHANGED question
  /\ UNCHANGED <<connectedDevices, crashes, shifted, erred>>

Answer(confirmed) ==
  /\ question # <<>> /\ posted = <<>> /\ question' = <<>>
  /\ IF confirmed THEN CloseAt(question[1], question[2], TRUE) ELSE UNCHANGED <<tabs, instance, posted>>
  /\ UNCHANGED <<connectedDevices, crashes, shifted, erred>>

GuiInit ==
  /\ tabs = <<1>>
  /\ instance = [j \in Instances |-> IF j = 1 THEN [NewInstance EXCEPT !.text = "login", !.widget = "login"]
                                     ELSE NewInstance]
  /\ connectedDevices = {} /\ posted = <<>> /\ question = <<>> /\ crashes = 0 /\ shifted = FALSE /\ erred = {}

Deliver == \E i \in Instances : OnRunClientReady(i) \/ OnClientRunDone(i) \/ OnClientRunError(i)

GuiNext ==
  \/ \E i \in Instances : ClientReady(i) \/ ClientFails(i) \/ Logout(i)
  \/ Deliver
  \/ \E i \in Instances, d \in GuiDevices : Login(i, d)
  \/ \E d \in GuiDevices : TryLogin(d)
  \/ AddInstance
  \/ \E k \in 1 .. Len(tabs) : CloseTab(k)
  \/ \E b \in BOOLEAN : Answer(b)

GuiSpec == GuiInit /\ [][GuiNext]_guiVars

\* The event loop of Qt delivers what is posted.
GuiFairSpec == GuiSpec /\ WF_guiVars(Deliver)

-----------------------------------------------------------------------------
(* Properties *)

\* Every tab is the tab of another instance, the central widget is shown only for a client,
\* and a signal is of a job that is not forgotten.
GuiTypeOK ==
  /\ Cardinality(InBar(tabs)) = Len(tabs)
  /\ \A i \in Instances : instance[i].widget = "central" => instance[i].client # NoDevice
  /\ \A k \in DOMAIN posted : instance[posted[k][2]].job # "none"

\* There is one login tab at most (_get_login_tab_index returns the first one), and the
\* window is never left without a tab, unless a tab left behind an open question.
LoginTabIsUnique ==
  /\ Cardinality(LoginTabs(Window)) <= 1
  /\ ~ shifted => tabs # <<>>

\* A client that runs has its tab, unless a tab left behind an open question.
RunningHasTab ==
  ~ shifted => \A i \in Instances : instance[i].job \in {"starting", "running"} => i \in InBar(tabs)

\* A device whose client has ended, and not with an error, can be logged in again.
EndedIsReleased ==
  \A d \in GuiDevices :
    (d \in connectedDevices \ erred /\ \A i \in Instances : instance[i].device = d => Ended(i))
      ~> (d \notin connectedDevices \/ d \in erred)

\* "The device will be disconnected": the tab that closes is the one the question named.
ClosedAsAsked == \A i \in Instances : instance[i].job \in {"starting", "running"} => i \in InBar(tabs)

\* "This device is already logged in": a device that is refused has a client.
ConnectedHasClient ==
  \A d \in connectedDevices : \E i \in Instances : instance[i].device = d /\ instance[i].job # "none"

\* The tabs of the window: one tab to log in at most, and a client that runs has a tab.
SessionsAreSound == GuiTypeOK /\ LoginTabIsUnique /\ RunningHasTab
=============================================================================
