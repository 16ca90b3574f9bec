---------------------------- MODULE ControlPage ----------------------------
(***************************************************************************)
(* web/cameraproperties.js, the script that sets the camera's properties   *)
(* from the controls of the settings panel, with the panel itself          *)
(* (web/cameraproperties.html, opened and closed by web/index.html).  A    *)
(* control shows what the user chose at once, and a POST carries it to the *)
(* camera; nobody waits for it and nothing puts a control back.  What the  *)
(* camera does in the end depends on how the POSTs in flight overtake one  *)
(* another, on what the server answers and on the connections.             *)
(*                                                                         *)
(* Granularity.  A callback of the page is one step, and so is a handler   *)
(* of the server.  The browser sends POSTs in order, on as many            *)
(* connections as it allows to one host; what they carry is handled in any *)
(* order.                                                                  *)
(*                                                                         *)
(* The server is the one the page is written for: HandlePostRequest of     *)
(* webcamera/web_camera_control_handler.cpp at /camera/config, or no       *)
(* handler there, which is a 404 from WebCameraServer::onRequest.          *)
(***************************************************************************)
EXTENDS Integers, FiniteSets, SequencesExt

CONSTANTS
  Properties,       (* names of the camera's properties                      *)
  Values,           (* what a property may be set to                         *)
  Default,          (* the def of every property                             *)
  Connections,      (* connections the browser opens to one host             *)
  MaxPosts          (* bound: POSTs that are not answered                    *)

ASSUME ControlAssumption ==
  /\ IsFiniteSet(Properties)
  /\ {0, 1} \subseteq Values
  /\ Values \subseteq Nat
  /\ Default \in {0, 1}
  /\ Connections \in Nat \ {0}
  /\ MaxPosts \in Nat

VARIABLES
  kind,             (* the type of each property: "int", "bool" or "select"  *)
  panel,            (* "closed", "loading", "read" (the configuration is on
                       its way), "shown", or "empty": shown without controls *)
  control,          (* the value each control shows, or is about to show when
                       the panel is "read"; 1 for checked                    *)
  held,             (* sliders that were moved and not let go                *)
  posts,            (* POSTs not answered, in the order they were made; in
                       "late", as history, what came before an unhandled one:
                       a later POST of the property, or the panel's reading  *)
  camera,           (* what the properties of the camera are                 *)
  chosen,           (* history: what p was shown or set to since it was quiet *)
  trouble,          (* history: how POSTs of p went wrong since then         *)
  behind,           (* history: who set p last behind its control: nobody,
                       a late POST and why it was late, or others            *)
  logged            (* history: the page logged that it could not be set     *)

inputVars == <<control, held>>
historyVars == <<chosen, trouble, behind, logged>>
vars == <<kind, panel, inputVars, posts, camera, historyVars>>

Replies == {"none", "OK", "rejected", "failed"}
Delays == {"no", "overtaken", "read"}
Request == [prop : Properties, val : Values, reply : {"none"}, late : {"no"}]
Post == [prop : Properties, val : Values, reply : Replies, late : Delays]

Busy(p) == \E i \in DOMAIN posts : posts[i].prop = p

(***************************************************************************)
(* Types, and: what was logged was rejected.                               *)
(***************************************************************************)
TypeOK ==
  /\ kind \in [Properties -> {"int", "bool", "select"}]
  /\ panel \in {"closed", "loading", "read", "shown", "empty"}
  /\ control \in [Properties -> Values]
  /\ held \subseteq Properties
  /\ posts \in Seq(Post)
  /\ Len(posts) <= MaxPosts
  /\ camera \in [Properties -> Values]
  /\ chosen \in [Properties -> SUBSET Values]
  /\ trouble \in [Properties -> SUBSET {"rejected", "failed"}]
  /\ behind \in [Properties -> Delays \union {"others"}]
  /\ logged \subseteq {p \in Properties : "rejected" \in trouble[p]}

(* Values of a property: a bool is 0 or 1. *)
Domain(p) == IF kind[p] = "bool" THEN {0, 1} ELSE Values

(* The page is loaded and its panel closed. *)
Init ==
  /\ kind \in [Properties -> {"int", "bool", "select"}]
  /\ panel = "closed"
  /\ camera \in [Properties -> Values]
  /\ \A p \in Properties : camera[p] \in Domain(p)
  /\ control = camera
  /\ held = {}
  /\ posts = <<>>
  /\ chosen = [p \in Properties |-> {camera[p]}]
  /\ trouble = [p \in Properties |-> {}]
  /\ behind = [p \in Properties |-> "no"]
  /\ logged = {}

(* What is known of the properties begins anew where none is in flight. *)
Begin(ps) ==
  LET fresh == {p \in ps : ~Busy(p)}
  IN /\ trouble' = [p \in Properties |-> IF p \in fresh THEN {} ELSE trouble[p]]
     /\ logged' = logged \ fresh

-----------------------------------------------------------------------------
(* cameraproperties.js: what the controls' handlers send. *)

(* setCameraProperty(): one variable in a map of its own. *)
setCameraProperty(p, v) == <<[prop |-> p, val |-> v, reply |-> "none", late |-> "no"]>>

(* Mutant: the test of cb.checked is the wrong way round. *)
handleBoolPropertyInverted(p, checked) == setCameraProperty(p, IF checked THEN 0 ELSE 1)

handleBoolProperty(p, checked) == setCameraProperty(p, IF checked THEN 1 ELSE 0)

handleRangeProperty(p, value) == setCameraProperty(p, value)

handleSelectionProperty(p, value) == setCameraProperty(p, value)

(* Mutant: a property is not sent again while it is busy. *)
setCameraPropertiesWhenQuiet(requests) ==
  LET sent == SelectSeq(requests, LAMBDA r : ~Busy(r.prop))
  IN /\ Len(posts) + Len(sent) <= MaxPosts
     /\ posts' = posts \o sent
     /\ chosen' = [p \in Properties |->
                     chosen[p] \union {r.val : r \in {x \in Range(requests) : x.prop = p}}]
     /\ Begin({r.prop : r \in Range(requests)})
     /\ UNCHANGED behind

(* setCameraProperties(): $.ajax, asynchronous.  More than one request at a *)
(* time when one turn of the page calls it repeatedly.                      *)
setCameraProperties(requests) ==
  LET news(p) == {requests[i].val : i \in {j \in DOMAIN requests : requests[j].prop = p}}
      named == {p \in Properties : news(p) # {}}
  IN /\ Len(posts) + Len(requests) <= MaxPosts
     /\ posts' = posts \o requests
     /\ chosen' = [p \in Properties |->
                     IF p \notin named \/ Busy(p) THEN chosen[p] \union news(p) ELSE news(p)]
     /\ Begin(named)
     /\ UNCHANGED behind

-----------------------------------------------------------------------------
(* The user and the panel: cameraproperties.html. *)

(* A control shows v and its handler sends a request. *)
Choose(p, v, request) ==
  /\ panel = "shown"
  /\ control' = [control EXCEPT ![p] = v]
  /\ setCameraProperties(request)
  /\ UNCHANGED <<kind, panel, camera>>

(* oninput of a slider, while it moves. *)
Slide(p, v) ==
  /\ kind[p] = "int"
  /\ Choose(p, v, handleRangeProperty(p, v))
  /\ held' = held \union {p}

(* onchange of a slider that is let go: the same value once more. *)
Release(p) ==
  /\ p \in held
  /\ Choose(p, control[p], handleRangeProperty(p, control[p]))
  /\ held' = held \ {p}

(* onclick of a checkbox. *)
Click(p) ==
  /\ kind[p] = "bool"
  /\ Choose(p, 1 - control[p], handleBoolProperty(p, control[p] = 0))
  /\ UNCHANGED held

(* onchange of a selection. *)
Select(p, v) ==
  /\ kind[p] = "select"
  /\ v # control[p]
  /\ Choose(p, v, handleSelectionProperty(p, v))
  /\ UNCHANGED held

(***************************************************************************)
(* What resetToDefaults() sends, control by control: a selection's handler *)
(* is called by onchange() and by change().                                *)
(***************************************************************************)
Handler(p) ==
  CASE kind[p] = "bool" -> handleBoolProperty(p, Default = 1)
    [] kind[p] = "int" -> handleRangeProperty(p, Default)
    [] kind[p] = "select" -> handleSelectionProperty(p, Default)

ResetRequests ==
  {rs \in SeqOf(UNION {Range(Handler(p)) : p \in Properties}, 2 * Cardinality(Properties)) :
     /\ \A p \in Properties :
          Cardinality({i \in DOMAIN rs : rs[i].prop = p}) = IF kind[p] = "select" THEN 2 ELSE 1
     /\ \A i, j \in DOMAIN rs : i < j /\ rs[i].prop = rs[j].prop => j = i + 1}

resetToDefaults ==
  /\ panel = "shown"
  /\ control' = [p \in Properties |-> Default]
  /\ \E requests \in ResetRequests : setCameraProperties(requests)
  /\ UNCHANGED <<kind, panel, held, camera>>

(* The settings button: index.html loads cameraproperties.html, which asks *)
(* for /camera/config and /camera/properties.  It is not pressed again     *)
(* before the answer is there.                                             *)
OpenPanel ==
  /\ panel = "closed"
  /\ panel' = "loading"
  /\ UNCHANGED <<kind, inputVars, posts, camera, historyVars>>

(* Or, pressed again, hides the panel. *)
ClosePanel ==
  /\ panel \in {"shown", "empty"}
  /\ held = {}
  /\ panel' = "closed"
  /\ UNCHANGED <<kind, inputVars, posts, camera, historyVars>>

(* The server reads the properties.  From here on what it read counts as   *)
(* chosen, for the panel is going to show it, whatever is still to come of *)
(* the POSTs that the server has not handled.                              *)
ReadConfig ==
  /\ panel = "loading"
  /\ panel' = "read"
  /\ control' = camera
  /\ posts' = [i \in DOMAIN posts |->
                 [posts[i] EXCEPT !.late = IF posts[i].reply = "none" THEN "read" ELSE "no"]]
  /\ behind' = [p \in Properties |-> "no"]
  /\ chosen' = [p \in Properties |-> {camera[p]} \union IF Busy(p) THEN chosen[p] ELSE {}]
  /\ Begin(Properties)
  /\ UNCHANGED <<kind, held, camera>>

(* showSettings() with both answers: controls with what config says. *)
ShowSettings ==
  /\ panel = "read"
  /\ panel' = "shown"
  /\ UNCHANGED <<kind, inputVars, posts, camera, historyVars>>

(* One of the requests fails: no panel, or a panel without controls. *)
LoadFails ==
  /\ panel \in {"loading", "read"}
  /\ panel' \in {"closed", "empty"}
  /\ UNCHANGED <<kind, inputVars, posts, camera, historyVars>>

-----------------------------------------------------------------------------
(* The answer to posts[i]. *)

Done(i) ==
  /\ posts' = RemoveAt(posts, i)
  /\ trouble' = [trouble EXCEPT ![posts[i].prop] = @ \union ({posts[i].reply} \ {"OK"})]
  /\ UNCHANGED <<kind, panel, inputVars, camera, chosen, behind>>

(* Mutant: whatever the status is, it is logged. *)
successLogsAll(i) ==
  /\ posts[i].reply \in {"OK", "rejected"}
  /\ Done(i)
  /\ logged' = logged \union {posts[i].prop}

(* success(data): a status that is not OK is logged, and that is all. *)
success(i) ==
  \/ /\ posts[i].reply = "OK"
     /\ Done(i)
     /\ UNCHANGED logged
  \/ /\ posts[i].reply = "rejected"
     /\ Done(i)
     /\ logged' = logged \union {posts[i].prop}

(* Mutant: what failed is sent once more. *)
failureRetries(i) ==
  /\ posts[i].reply = "failed"
  /\ posts' = Append(RemoveAt(posts, i), [posts[i] EXCEPT !.reply = "none"])
  /\ trouble' = [trouble EXCEPT ![posts[i].prop] = @ \union {"failed"}]
  /\ UNCHANGED <<kind, panel, inputVars, camera, chosen, behind, logged>>

(* jQuery knows no option "failure": it calls nobody. *)
failure(i) ==
  /\ posts[i].reply = "failed"
  /\ Done(i)
  /\ UNCHANGED logged

-----------------------------------------------------------------------------
(* The server and the world. *)

(* A POST that is on a connection and was not handled. *)
Arrived(i) == i <= Connections /\ posts[i].reply = "none"

Answer(i, reply) == posts' = [posts EXCEPT ![i].reply = reply, ![i].late = "no"]

Overtakes(i, j) == j < i /\ posts[j].prop = posts[i].prop /\ posts[j].reply = "none"

(* HandlePostRequest: the property is set.  Earlier POSTs of the property  *)
(* that are handled from now on are late.                                  *)
Accept(i) ==
  /\ Arrived(i)
  /\ posts' = [j \in DOMAIN posts |->
                 IF j = i THEN [posts[i] EXCEPT !.reply = "OK", !.late = "no"]
                 ELSE IF Overtakes(i, j) THEN [posts[j] EXCEPT !.late = "overtaken"]
                 ELSE posts[j]]
  /\ camera' = [camera EXCEPT ![posts[i].prop] = posts[i].val]
  /\ behind' = [behind EXCEPT ![posts[i].prop] = posts[i].late]
  /\ UNCHANGED <<kind, panel, inputVars, chosen, trouble, logged>>

(* HandlePostRequest: unknown, invalid, or refused by the device. *)
Reject(i) ==
  /\ Arrived(i)
  /\ Answer(i, "rejected")
  /\ UNCHANGED <<kind, panel, inputVars, camera, historyVars>>

(* No handler: 404.  Or the connection is lost before the handler. *)
Refuse(i) ==
  /\ Arrived(i)
  /\ Answer(i, "failed")
  /\ UNCHANGED <<kind, panel, inputVars, camera, historyVars>>

(* The connection is lost after the handler. *)
LoseAnswer(i) ==
  /\ posts[i].reply \in {"OK", "rejected"}
  /\ Answer(i, "failed")
  /\ UNCHANGED <<kind, panel, inputVars, camera, historyVars>>

(* Another page sets the property, or a POST this page has given up. *)
SetElsewhere(p, v) ==
  /\ v \in Domain(p)
  /\ camera' = [camera EXCEPT ![p] = v]
  /\ behind' = [behind EXCEPT ![p] = "others"]
  /\ UNCHANGED <<kind, panel, inputVars, posts, chosen, trouble, logged>>

-----------------------------------------------------------------------------
UserStep ==
  \/ \E p \in Properties, v \in Values : Slide(p, v) \/ Select(p, v)
  \/ \E p \in Properties : Release(p) \/ Click(p)
  \/ resetToDefaults \/ OpenPanel \/ ClosePanel

PageStep ==
  \/ ShowSettings
  \/ \E i \in DOMAIN posts : success(i) \/ failure(i)

ServerStep ==
  \/ ReadConfig
  \/ \E i \in DOMAIN posts : Accept(i) \/ Reject(i) \/ Refuse(i)

WorldStep ==
  \/ LoadFails
  \/ \E i \in DOMAIN posts : LoseAnswer(i)
  \/ \E p \in Properties, v \in Values : SetElsewhere(p, v)

Next == UserStep \/ PageStep \/ ServerStep \/ WorldStep

Safety == Init /\ [][Next]_vars

(***************************************************************************)
(* A POST that arrived is answered, one way or another, and the page's     *)
(* callbacks are called.  The user does nothing he does not want to, and   *)
(* connections need not break.                                             *)
(***************************************************************************)
Fairness == WF_vars(PageStep) /\ WF_vars(ServerStep)

Spec == Safety /\ Fairness

-----------------------------------------------------------------------------
(***************************************************************************)
(* A property that is quiet, whose POSTs were all answered OK and that     *)
(* nobody else set last, is what the user chose since it was quiet before, *)
(* and its control shows such a choice.  Neither a POST of an earlier      *)
(* burst nor a panel that was loaded meanwhile brings an older value back; *)
(* which choice of the burst it is, is left to the connections.            *)
(***************************************************************************)
BurstLands ==
  panel = "shown" =>
    \A p \in Properties :
      /\ control[p] \in chosen[p]
      /\ ~Busy(p) /\ trouble[p] = {} /\ behind[p] # "others" => camera[p] \in chosen[p]

(***************************************************************************)
(* A quiet control differs from its property only for one of five reasons. *)
(* The property was set last                                               *)
(*   - by others,                                                          *)
(*   - by a POST that a later one of the same property had overtaken,      *)
(*   - by a POST that the panel, when it was loaded, did not wait for,     *)
(* or else a POST of the burst                                             *)
(*   - was rejected, which the page logged,                                *)
(*   - or failed, which nobody is told.                                    *)
(* Where none of these happened the user sees what the camera does.        *)
(***************************************************************************)
Explained ==
  panel = "shown" =>
    \A p \in Properties :
      ~Busy(p) /\ camera[p] # control[p] =>
        behind[p] # "no" \/ p \in logged \/ "failed" \in trouble[p]

(* Once the user rests every POST is answered and the panel is not loading: *)
(* no POST is sent twice, and none waits for ever behind the others.        *)
Settles == <>[][~UserStep]_vars => <>[](posts = <<>> /\ panel \notin {"loading", "read"})

=============================================================================
