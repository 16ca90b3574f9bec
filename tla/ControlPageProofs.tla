------------------------- MODULE ControlPageProofs -------------------------
(***************************************************************************)
(* For every set of properties, every number of connections and however    *)
(* the user, the server and the network behave: what the camera holds in   *)
(* the end was chosen, or there is a reason.                               *)
(***************************************************************************)
EXTENDS ControlPage, FiniteSetTheorems, TLAPS

(* Every value is one its property may have: a checkbox says 0 or 1. *)
Within ==
  /\ \A p \in Properties : control[p] \in Domain(p) /\ camera[p] \in Domain(p)
  /\ \A i \in DOMAIN posts : posts[i].val \in Domain(posts[i].prop)

(* What is shown and what is in flight was chosen. *)
Chosen ==
  /\ \A i \in DOMAIN posts : posts[i].val \in chosen[posts[i].prop]
  /\ panel \in {"read", "shown"} => \A p \in Properties : control[p] \in chosen[p]

(***************************************************************************)
(* A value that was not chosen needs a reason: others, trouble, or a POST  *)
(* that was not handled yet or whose trouble the page will learn of.       *)
(***************************************************************************)
Unhandled(p) == \E i \in DOMAIN posts : posts[i].prop = p /\ posts[i].reply # "OK"

Landing ==
  \A p \in Properties :
    /\ behind[p] = "others" \/ trouble[p] # {} \/ camera[p] \in chosen[p] \/ Unhandled(p)
    /\ "rejected" \in trouble[p] => p \in logged

(***************************************************************************)
(* What a control shows.  The page was told of trouble, or what it shows   *)
(* is in flight and nothing later than it is anything else, or the camera  *)
(* has it already and what is in flight changes nothing unless it is late. *)
(***************************************************************************)
Cause(p) == p \in logged \/ "failed" \in trouble[p]

Newest(p) ==
  \E i \in DOMAIN posts :
    /\ posts[i].prop = p /\ posts[i].reply # "OK" /\ posts[i].late = "no"
    /\ \A j \in DOMAIN posts : j >= i /\ posts[j].prop = p => posts[j].val = control[p]

InTime(i) == posts[i].reply = "none" /\ posts[i].late = "no"

Agrees(p) ==
  /\ camera[p] # control[p] => behind[p] # "no"
  /\ \A i \in DOMAIN posts : posts[i].prop = p /\ InTime(i) => posts[i].val = control[p]

Shown == \A p \in Properties : Cause(p) \/ Newest(p) \/ Agrees(p)

Inv == TypeOK /\ Within /\ Chosen /\ Landing /\ Shown

-----------------------------------------------------------------------------
(* A sequence without one of its elements. *)
LEMMA Removed ==
  ASSUME NEW S, NEW s \in Seq(S), NEW i \in DOMAIN s
  PROVE  /\ RemoveAt(s, i) \in Seq(S)
         /\ Len(RemoveAt(s, i)) = Len(s) - 1
         /\ \A j \in DOMAIN RemoveAt(s, i) :
              /\ RemoveAt(s, i)[j] = s[IF j < i THEN j ELSE j + 1]
              /\ (IF j < i THEN j ELSE j + 1) \in DOMAIN s
         /\ \A k \in DOMAIN s : k # i =>
              /\ (IF k < i THEN k ELSE k - 1) \in DOMAIN RemoveAt(s, i)
              /\ RemoveAt(s, i)[IF k < i THEN k ELSE k - 1] = s[k]
<1> DEFINE a == SubSeq(s, 1, i - 1)
           b == SubSeq(s, i + 1, Len(s))
<1>1. Len(s) \in Nat /\ i \in 1 .. Len(s)
  OBVIOUS
<1>2. a \in Seq(S) /\ Len(a) = i - 1 /\ \A j \in 1 .. i - 1 : a[j] = s[j]
  BY <1>1
<1>3. b \in Seq(S) /\ Len(b) = Len(s) - i /\ \A j \in 1 .. Len(s) - i : b[j] = s[j + i]
  BY <1>1
<1>4. RemoveAt(s, i) = a \o b
  BY DEF RemoveAt
<1> HIDE DEF a, b
<1>5. a \o b \in Seq(S) /\ Len(a \o b) = Len(s) - 1
  BY <1>1, <1>2, <1>3
<1>6. \A j \in 1 .. Len(s) - 1 : (a \o b)[j] = s[IF j < i THEN j ELSE j + 1]
  <2> SUFFICES ASSUME NEW j \in 1 .. Len(s) - 1
               PROVE  (a \o b)[j] = s[IF j < i THEN j ELSE j + 1]
    OBVIOUS
  <2>1. CASE j < i
    <3>1. (a \o b)[j] = a[j]
      BY <1>1, <1>2, <1>3, <2>1
    <3>2. QED
      BY <1>1, <1>2, <2>1, <3>1
  <2>2. CASE ~(j < i)
    <3>1. (a \o b)[j] = b[j - (i - 1)]
      BY <1>1, <1>2, <1>3, <2>2
    <3>2. j - (i - 1) \in 1 .. Len(s) - i /\ j - (i - 1) + i = j + 1
      BY <1>1, <2>2
    <3>3. QED
      BY <1>1, <1>3, <2>2, <3>1, <3>2
  <2>3. QED
    BY <2>1, <2>2
<1>7. DOMAIN (a \o b) = 1 .. Len(s) - 1
  BY <1>5
<1>8. \A k \in DOMAIN s : k # i => /\ (IF k < i THEN k ELSE k - 1) \in DOMAIN (a \o b)
                                   /\ (a \o b)[IF k < i THEN k ELSE k - 1] = s[k]
  <2> SUFFICES ASSUME NEW k \in DOMAIN s, k # i
               PROVE  /\ (IF k < i THEN k ELSE k - 1) \in DOMAIN (a \o b)
                      /\ (a \o b)[IF k < i THEN k ELSE k - 1] = s[k]
    OBVIOUS
  <2>1. CASE k < i
    <3>1. k \in 1 .. Len(s) - 1
      BY <1>1, <2>1
    <3>2. QED
      BY <1>6, <1>7, <2>1, <3>1
  <2>2. CASE ~(k < i)
    <3>1. k - 1 \in DOMAIN (a \o b) /\ ~(k - 1 < i) /\ k - 1 + 1 = k
      BY <1>1, <1>7, <2>2
    <3>2. QED
      BY <1>6, <1>7, <2>2, <3>1
  <2>3. QED
    BY <1>1, <2>1, <2>2
<1>9. \A j \in 1 .. Len(s) - 1 : (IF j < i THEN j ELSE j + 1) \in DOMAIN s
  BY <1>1
<1>10. QED
  BY <1>4, <1>5, <1>6, <1>7, <1>8, <1>9

(* What the handlers send is a single request for their property. *)
LEMMA OneRequest ==
  ASSUME NEW p \in Properties, NEW v \in Values
  PROVE  /\ setCameraProperty(p, v) \in Seq(Request)
         /\ DOMAIN setCameraProperty(p, v) = {1}
         /\ setCameraProperty(p, v)[1].prop = p
         /\ setCameraProperty(p, v)[1].val = v
BY DEF setCameraProperty, Request

LEMMA DomainType ==
  ASSUME TypeOK, NEW p \in Properties
  PROVE  Domain(p) \subseteq Values /\ {0, 1} \subseteq Domain(p)
BY ControlAssumption DEF Domain

-----------------------------------------------------------------------------
(***************************************************************************)
(* One turn of the page sends any number of requests.  A property whose    *)
(* choices begin anew has one of them, and so has one that is busy.        *)
(***************************************************************************)
News(rs, p) == {rs[i].val : i \in {j \in DOMAIN rs : rs[j].prop = p}}

LEMMA SendKeeps ==
  ASSUME Inv, NEW rs \in Seq(Request), setCameraProperties(rs),
         \A i \in DOMAIN rs : rs[i].val \in Domain(rs[i].prop),
         panel = "shown", control' \in [Properties -> Values], held' \subseteq Properties,
         \A p \in Properties : /\ control'[p] \in Domain(p)
                               /\ News(rs, p) = {control'[p]} \/ (control'[p] = control[p] /\ News(rs, p) = {}),
         UNCHANGED <<kind, panel, camera>>
  PROVE  Inv'
<1> DEFINE named == {p \in Properties : News(rs, p) # {}}
           fresh == {p \in named : ~Busy(p)}
<1>1. /\ posts \in Seq(Post) /\ Len(posts) \in Nat /\ DOMAIN posts = 1 .. Len(posts)
      /\ Len(rs) \in Nat /\ DOMAIN rs = 1 .. Len(rs)
      /\ \A i \in DOMAIN rs : rs[i] \in Post /\ rs[i].reply = "none" /\ rs[i].prop \in Properties
                              /\ rs[i].val \in Values /\ rs[i].late = "no"
      /\ \A i \in DOMAIN posts : posts[i].prop \in Properties
  <2>1. posts \in Seq(Post)
    BY DEF Inv, TypeOK
  <2>2. \A i \in DOMAIN rs : rs[i] \in Request
    OBVIOUS
  <2>3. \A r \in Request : /\ r \in Post /\ r.reply = "none" /\ r.late = "no"
                         /\ r.prop \in Properties /\ r.val \in Values
    BY DEF Request, Post, Replies, Delays
  <2>4. \A i \in DOMAIN posts : posts[i] \in Post
    BY <2>1
  <2>5. \A r \in Post : r.prop \in Properties
    BY DEF Post
  <2>6. QED
    BY <2>1, <2>2, <2>3, <2>4, <2>5
<1>2. posts' = posts \o rs /\ Len(posts) + Len(rs) <= MaxPosts
  BY DEF setCameraProperties
<1>3. /\ posts' \in Seq(Post) /\ Len(posts') = Len(posts) + Len(rs)
      /\ DOMAIN posts' = 1 .. Len(posts) + Len(rs)
      /\ \A i \in DOMAIN posts : i \in DOMAIN posts' /\ posts'[i] = posts[i]
      /\ \A i \in DOMAIN rs : Len(posts) + i \in DOMAIN posts' /\ posts'[Len(posts) + i] = rs[i]
  <2>1. rs \in Seq(Post)
    BY <1>1
  <2>2. posts \o rs \in Seq(Post) /\ Len(posts \o rs) = Len(posts) + Len(rs)
    BY <1>1, <2>1
  <2>3. \A i \in DOMAIN posts : (posts \o rs)[i] = posts[i]
    BY <1>1
  <2>4. \A i \in DOMAIN rs : (posts \o rs)[Len(posts) + i] = rs[i]
    BY <1>1
  <2>5. QED
    BY <1>1, <1>2, <2>2, <2>3, <2>4
<1>4. \A i \in DOMAIN posts' : i \in DOMAIN posts \/ i - Len(posts) \in DOMAIN rs
  BY <1>1, <1>3
<1>5. chosen' = [p \in Properties |-> IF p \notin named \/ Busy(p) THEN chosen[p] \union News(rs, p)
                                                                 ELSE News(rs, p)]
  BY DEF setCameraProperties, News
<1>6. /\ trouble' = [p \in Properties |-> IF p \in fresh THEN {} ELSE trouble[p]]
      /\ behind' = behind
      /\ logged' = logged \ fresh
  BY DEF setCameraProperties, Begin, News
<1>7. \A p \in Properties : News(rs, p) \subseteq Values
  BY <1>1 DEF News
<1>8. \A i \in DOMAIN rs : rs[i].val \in News(rs, rs[i].prop) /\ rs[i].prop \in named
  <2>1. \A i \in DOMAIN rs : rs[i].val \in News(rs, rs[i].prop)
    BY DEF News
  <2>2. \A i \in DOMAIN rs : rs[i].prop \in Properties
    BY <1>1
  <2>3. QED
    BY <2>1, <2>2
<1> HIDE DEF named, fresh
<1>9. TypeOK'
  <2>1. chosen' \in [Properties -> SUBSET Values]
    BY <1>5, <1>7 DEF Inv, TypeOK
  <2>2. trouble' \in [Properties -> SUBSET {"rejected", "failed"}]
    BY <1>6 DEF Inv, TypeOK
  <2>3. behind' \in [Properties -> Delays \union {"others"}]
    BY <1>6 DEF Inv, TypeOK
  <2>4. logged' \subseteq {p \in Properties : "rejected" \in trouble'[p]}
    BY <1>6 DEF Inv, TypeOK
  <2>5. Len(posts') <= MaxPosts
    BY <1>2, <1>3
  <2>6. QED
    BY <1>3, <2>1, <2>2, <2>3, <2>4, <2>5 DEF Inv, TypeOK
<1>10. Within'
  <2>1. \A p : Domain(p)' = Domain(p)
    BY DEF Domain
  <2>2. \A i \in DOMAIN posts' : posts'[i].val \in Domain(posts'[i].prop)
    BY <1>1, <1>3, <1>4 DEF Inv, Within
  <2>3. QED
    BY <2>1, <2>2 DEF Inv, Within
<1>11. Chosen'
  <2>1. \A i \in DOMAIN posts : posts[i].val \in chosen'[posts[i].prop]
    BY <1>1, <1>5 DEF Inv, Chosen, Busy
  <2>2. \A i \in DOMAIN rs : rs[i].val \in chosen'[rs[i].prop]
    BY <1>1, <1>5, <1>8
  <2>3. \A i \in DOMAIN posts' : posts'[i].val \in chosen'[posts'[i].prop]
    BY <1>1, <1>3, <1>4, <2>1, <2>2
  <2>4. \A p \in Properties : control'[p] \in chosen'[p]
    BY <1>5 DEF Inv, Chosen, named
  <2>5. QED
    BY <2>3, <2>4 DEF Chosen
<1>12. Landing'
  <2> SUFFICES ASSUME NEW p \in Properties
               PROVE  /\ behind'[p] = "others" \/ trouble'[p] # {} \/ camera[p] \in chosen'[p] \/ Unhandled(p)'
                      /\ "rejected" \in trouble'[p] => p \in logged'
    BY DEF Landing
  <2>1. CASE p \in fresh
    <3>1. PICK i \in DOMAIN rs : rs[i].prop = p
      BY <2>1 DEF fresh, named, News
    <3>2. Unhandled(p)'
      BY <1>1, <1>3, <3>1 DEF Unhandled
    <3>3. QED
      BY <1>6, <2>1, <3>2
  <2>2. CASE p \notin fresh
    <3>1. trouble'[p] = trouble[p] /\ behind'[p] = behind[p] /\ (p \in logged' <=> p \in logged)
      BY <1>6, <2>2 DEF Inv, TypeOK
    <3>2. chosen[p] \subseteq chosen'[p]
      BY <1>5, <2>2 DEF fresh
    <3>3. Unhandled(p) => Unhandled(p)'
      BY <1>3 DEF Unhandled
    <3>4. QED
      BY <3>1, <3>2, <3>3 DEF Inv, Landing
  <2>3. QED
    BY <2>1, <2>2
<1>13. Shown'
  <2> SUFFICES ASSUME NEW p \in Properties
               PROVE  Cause(p)' \/ Newest(p)' \/ Agrees(p)'
    BY DEF Shown
  <2>1. CASE p \in named
    <3>1. \A i \in DOMAIN rs : rs[i].prop = p => rs[i].val \in News(rs, p)
      BY DEF News
    <3>2. News(rs, p) = {control'[p]}
      BY <2>1 DEF named
    <3>3. PICK k \in DOMAIN rs : rs[k].prop = p
      BY <2>1 DEF named, News
    <3>4. \A i \in DOMAIN rs : rs[i].prop = p => rs[i].val = control'[p]
      BY <3>1, <3>2
    <3>5. \A j \in DOMAIN posts' : j >= Len(posts) + k /\ posts'[j].prop = p => posts'[j].val = control'[p]
      <4> SUFFICES ASSUME NEW j \in DOMAIN posts', j >= Len(posts) + k, posts'[j].prop = p
                   PROVE  posts'[j].val = control'[p]
        OBVIOUS
      <4>1. j - Len(posts) \in DOMAIN rs /\ Len(posts) + (j - Len(posts)) = j
        BY <1>1, <1>3
      <4>2. posts'[j] = rs[j - Len(posts)]
        BY <1>3, <4>1
      <4>3. QED
        BY <3>4, <4>1, <4>2
    <3>6. Newest(p)'
      <4> DEFINE w == Len(posts) + k
      <4>1. w \in DOMAIN posts' /\ posts'[w] = rs[k]
        BY <1>1, <1>3
      <4>2. rs[k].reply # "OK" /\ rs[k].late = "no"
        BY <1>1
      <4>3. posts'[w].prop = p /\ posts'[w].reply # "OK" /\ posts'[w].late = "no"
        BY <3>3, <4>1, <4>2
      <4> HIDE DEF w
      <4>4. \A j \in DOMAIN posts' : j >= w /\ posts'[j].prop = p => posts'[j].val = control'[p]
        BY <3>5 DEF w
      <4>5. QED
        BY <4>1, <4>3, <4>4 DEF Newest
    <3>7. QED
      BY <3>6
  <2>2. CASE p \notin named
    <3>1. control'[p] = control[p] /\ behind'[p] = behind[p]
      BY <1>6, <2>2 DEF named
    <3>2. \A i \in DOMAIN posts' : posts'[i].prop = p => i \in DOMAIN posts
      BY <1>1, <1>3, <1>4, <1>8, <2>2
    <3>3. Cause(p) => Cause(p)'
      BY <1>6, <2>2 DEF Cause, fresh, Inv, TypeOK
    <3>4. ASSUME Newest(p) PROVE Newest(p)'
      <4>1. PICK w \in DOMAIN posts :
               /\ posts[w].prop = p /\ posts[w].reply # "OK" /\ posts[w].late = "no"
               /\ \A j \in DOMAIN posts : j >= w /\ posts[j].prop = p => posts[j].val = control[p]
        BY <3>4 DEF Newest
      <4>2. w \in DOMAIN posts' /\ posts'[w] = posts[w]
        BY <1>3
      <4>3. \A j \in DOMAIN posts' : j >= w /\ posts'[j].prop = p => posts'[j].val = control'[p]
        BY <1>3, <3>1, <3>2, <4>1
      <4>4. QED
        BY <4>1, <4>2, <4>3 DEF Newest
    <3>5. Agrees(p) => Agrees(p)'
      BY <1>3, <3>1, <3>2 DEF Agrees, InTime
    <3>6. QED
      BY <3>3, <3>4, <3>5 DEF Inv, Shown
  <2>3. QED
    BY <2>1, <2>2
<1>14. QED
  BY <1>9, <1>10, <1>11, <1>12, <1>13 DEF Inv

-----------------------------------------------------------------------------
(* The user: each event sends what the control shows now. *)

(* One control shows v, and v is what its handler sends. *)
LEMMA ChooseKeeps ==
  ASSUME Inv, NEW p \in Properties, NEW v \in Domain(p),
         Choose(p, v, setCameraProperty(p, v)), held' \subseteq Properties
  PROVE  Inv'
<1> DEFINE rs == setCameraProperty(p, v)
<1>1. v \in Values
  BY DomainType DEF Inv
<1>2. rs \in Seq(Request) /\ DOMAIN rs = {1} /\ rs[1].prop = p /\ rs[1].val = v
  BY <1>1, OneRequest
<1>3. /\ panel = "shown" /\ control' = [control EXCEPT ![p] = v] /\ setCameraProperties(rs)
      /\ UNCHANGED <<kind, panel, camera>>
  BY DEF Choose
<1> HIDE DEF rs
<1>4. control \in [Properties -> Values]
  BY DEF Inv, TypeOK
<1>5. control' \in [Properties -> Values]
  BY <1>1, <1>3, <1>4
<1>6. News(rs, p) = {v} /\ \A q \in Properties : q # p => News(rs, q) = {}
  BY <1>2 DEF News
<1>7. \A q \in Properties : /\ control'[q] \in Domain(q)
                            /\ News(rs, q) = {control'[q]} \/ (control'[q] = control[q] /\ News(rs, q) = {})
  BY <1>3, <1>4, <1>6 DEF Inv, Within
<1>8. \A i \in DOMAIN rs : rs[i].val \in Domain(rs[i].prop)
  BY <1>2
<1>9. QED
  BY <1>2, <1>3, <1>5, <1>7, <1>8, SendKeeps

LEMMA UserEventKeeps ==
  ASSUME Inv, NEW p \in Properties, NEW v \in Values,
         Slide(p, v) \/ Select(p, v) \/ Release(p) \/ Click(p)
  PROVE  Inv'
<1>1. control[p] \in Domain(p) /\ held \subseteq Properties
  BY DEF Inv, Within, TypeOK
<1>2. CASE Slide(p, v)
  <2>1. v \in Domain(p) /\ held' \subseteq Properties
    BY <1>1, <1>2 DEF Slide, Domain
  <2>2. Choose(p, v, setCameraProperty(p, v))
    BY <1>2 DEF Slide, handleRangeProperty
  <2>3. QED
    BY <2>1, <2>2, ChooseKeeps
<1>3. CASE Select(p, v)
  <2>1. v \in Domain(p) /\ held' \subseteq Properties
    BY <1>1, <1>3 DEF Select, Domain
  <2>2. Choose(p, v, setCameraProperty(p, v))
    BY <1>3 DEF Select, handleSelectionProperty
  <2>3. QED
    BY <2>1, <2>2, ChooseKeeps
<1>4. CASE Release(p)
  <2>1. held' \subseteq Properties
    BY <1>1, <1>4 DEF Release
  <2>2. Choose(p, control[p], setCameraProperty(p, control[p]))
    BY <1>4 DEF Release, handleRangeProperty
  <2>3. QED
    BY <1>1, <2>1, <2>2, ChooseKeeps
<1>5. CASE Click(p)
  <2>1. control[p] \in {0, 1} /\ held' \subseteq Properties
    BY <1>1, <1>5 DEF Click, Domain
  <2>2. 1 - control[p] \in {0, 1} /\ 1 - control[p] = IF control[p] = 0 THEN 1 ELSE 0
    BY <2>1
  <2>3. 1 - control[p] \in Domain(p)
    BY <2>2, DomainType DEF Inv
  <2>4. Choose(p, 1 - control[p], setCameraProperty(p, 1 - control[p]))
    BY <1>5, <2>2 DEF Click, handleBoolProperty
  <2>5. QED
    BY <2>1, <2>3, <2>4, ChooseKeeps
<1>6. QED
  BY <1>2, <1>3, <1>4, <1>5

(* The default of a property is what its handler sends. *)
LEMMA HandlerSends ==
  ASSUME Inv, NEW p \in Properties
  PROVE  Handler(p) = setCameraProperty(p, Default)
<1>1. kind[p] \in {"int", "bool", "select"}
  BY DEF Inv, TypeOK
<1>2. CASE kind[p] = "bool"
  <2>1. (IF Default = 1 THEN 1 ELSE 0) = Default
    BY ControlAssumption
  <2>2. Handler(p) = handleBoolProperty(p, Default = 1)
    BY <1>2 DEF Handler
  <2>3. QED
    BY <2>1, <2>2 DEF handleBoolProperty
<1>3. CASE kind[p] = "int"
  <2>1. Handler(p) = handleRangeProperty(p, Default)
    BY <1>3 DEF Handler
  <2>2. QED
    BY <2>1 DEF handleRangeProperty
<1>4. CASE kind[p] = "select"
  <2>1. Handler(p) = handleSelectionProperty(p, Default)
    BY <1>4 DEF Handler
  <2>2. QED
    BY <2>1 DEF handleSelectionProperty
<1>5. QED
  BY <1>1, <1>2, <1>3, <1>4

LEMMA ResetKeeps ==
  ASSUME Inv, resetToDefaults
  PROVE  Inv'
<1>1. PICK rs \in ResetRequests : setCameraProperties(rs)
  BY DEF resetToDefaults
<1>2. Default \in Values
  BY ControlAssumption
<1>3. \A r \in UNION {Range(Handler(p)) : p \in Properties} :
         r \in Request /\ r.prop \in Properties /\ r.val = Default
  <2> SUFFICES ASSUME NEW p \in Properties, NEW r \in Range(Handler(p))
               PROVE  r \in Request /\ r.prop \in Properties /\ r.val = Default
    OBVIOUS
  <2>1. r \in Range(setCameraProperty(p, Default))
    BY HandlerSends
  <2>2. r = setCameraProperty(p, Default)[1] /\ r \in Request
    BY <1>2, <2>1, OneRequest DEF Range
  <2>3. QED
    BY <1>2, <2>2, OneRequest
<1>4. rs \in Seq(Request) /\ \A i \in DOMAIN rs : rs[i].prop \in Properties /\ rs[i].val = Default
  <2> DEFINE R == UNION {Range(Handler(p)) : p \in Properties}
  <2>1. Cardinality(Properties) \in Nat
    BY ControlAssumption, FS_CardinalityType
  <2>2. PICK m \in 0 .. 2 * Cardinality(Properties) : rs \in [1 .. m -> R]
    BY DEF ResetRequests, SeqOf
  <2> HIDE DEF R
  <2>3. m \in Nat
    BY <2>1
  <2>4. \A r \in R : r \in Request /\ r.prop \in Properties /\ r.val = Default
    BY <1>3 DEF R
  <2>5. rs \in [1 .. m -> Request]
    BY <2>2, <2>4
  <2>6. QED
    BY <2>2, <2>3, <2>4, <2>5
<1>5. \A p \in Properties : News(rs, p) = {Default}
  <2> SUFFICES ASSUME NEW p \in Properties
               PROVE  News(rs, p) = {Default}
    OBVIOUS
  <2>1. Cardinality({i \in DOMAIN rs : rs[i].prop = p}) \in {1, 2}
    BY DEF ResetRequests
  <2>2. {i \in DOMAIN rs : rs[i].prop = p} # {}
    BY <2>1, FS_EmptySet
  <2>3. PICK i \in DOMAIN rs : rs[i].prop = p
    BY <2>2
  <2>4. QED
    BY <1>4, <2>3 DEF News
<1>6. /\ panel = "shown" /\ control' = [p \in Properties |-> Default] /\ held' \subseteq Properties
      /\ UNCHANGED <<kind, panel, camera>>
  BY DEF resetToDefaults, Inv, TypeOK
<1>7. \A p \in Properties : Default \in Domain(p)
  BY ControlAssumption DEF Domain
<1>8. control' \in [Properties -> Values] /\ \A p \in Properties : control'[p] = Default
  BY <1>2, <1>6
<1>9. QED
  BY <1>1, <1>4, <1>5, <1>6, <1>7, <1>8, SendKeeps

-----------------------------------------------------------------------------
(* The panel. *)

LEMMA ReadKeeps ==
  ASSUME Inv, ReadConfig
  PROVE  Inv'
<1>1. /\ panel' = "read" /\ control' = camera
      /\ chosen' = [p \in Properties |-> {camera[p]} \union IF Busy(p) THEN chosen[p] ELSE {}]
      /\ behind' = [p \in Properties |-> "no"]
      /\ UNCHANGED <<kind, held, camera>>
  BY DEF ReadConfig
<1> DEFINE fresh == {p \in Properties : ~Busy(p)}
<1>2. /\ trouble' = [p \in Properties |-> IF p \in fresh THEN {} ELSE trouble[p]]
      /\ logged' = logged \ fresh
  BY DEF ReadConfig, Begin
<1> HIDE DEF fresh
<1>3. camera \in [Properties -> Values] /\ chosen \in [Properties -> SUBSET Values]
  BY DEF Inv, TypeOK
<1>4. /\ DOMAIN posts' = DOMAIN posts
      /\ \A i \in DOMAIN posts :
           /\ posts'[i].prop = posts[i].prop /\ posts'[i].val = posts[i].val
           /\ posts'[i].reply = posts[i].reply
           /\ posts'[i].late = IF posts[i].reply = "none" THEN "read" ELSE "no"
      /\ posts' \in Seq(Post) /\ Len(posts') = Len(posts)
  <2> DEFINE post(i) == [posts[i] EXCEPT !.late = IF posts[i].reply = "none" THEN "read" ELSE "no"]
  <2>1. posts' = [i \in DOMAIN posts |-> post(i)]
    BY DEF ReadConfig
  <2>2. posts \in Seq(Post) /\ DOMAIN posts = 1 .. Len(posts) /\ Len(posts) \in Nat
    BY DEF Inv, TypeOK
  <2>3. \A i \in DOMAIN posts :
          /\ post(i) \in Post
          /\ post(i).prop = posts[i].prop /\ post(i).val = posts[i].val
          /\ post(i).reply = posts[i].reply
          /\ post(i).late = IF posts[i].reply = "none" THEN "read" ELSE "no"
    <3> SUFFICES ASSUME NEW i \in DOMAIN posts
                 PROVE  /\ post(i) \in Post
                        /\ post(i).prop = posts[i].prop /\ post(i).val = posts[i].val
                        /\ post(i).reply = posts[i].reply
                        /\ post(i).late = IF posts[i].reply = "none" THEN "read" ELSE "no"
      OBVIOUS
    <3>1. posts[i] \in Post /\ "none" \in Replies
      BY <2>2 DEF Replies
    <3>2. (IF posts[i].reply = "none" THEN "read" ELSE "no") \in Delays
      BY DEF Delays
    <3>3. QED
      BY <3>1, <3>2 DEF Post
  <2> HIDE DEF post
  <2>4. posts' \in [1 .. Len(posts) -> Post]
    BY <2>1, <2>2, <2>3
  <2>5. QED
    BY <2>1, <2>2, <2>3, <2>4
<1>5. TypeOK'
  <2>1. chosen' \in [Properties -> SUBSET Values]
    BY <1>1, <1>3
  <2>2. trouble' \in [Properties -> SUBSET {"rejected", "failed"}]
    BY <1>2 DEF Inv, TypeOK
  <2>3. behind' \in [Properties -> Delays \union {"others"}]
    BY <1>1 DEF Delays
  <2>4. logged' \subseteq {p \in Properties : "rejected" \in trouble'[p]}
    BY <1>2 DEF Inv, TypeOK
  <2>5. QED
    BY <1>1, <1>4, <2>1, <2>2, <2>3, <2>4 DEF Inv, TypeOK
<1>6. Within'
  BY <1>1, <1>4 DEF Inv, Within, Domain
<1>7. Chosen'
  <2>1. \A i \in DOMAIN posts : posts[i].prop \in Properties /\ Busy(posts[i].prop)
    <3>1. \A i \in DOMAIN posts : posts[i] \in Post
      BY DEF Inv, TypeOK
    <3>2. \A i \in DOMAIN posts : posts[i].prop \in Properties
      BY <3>1 DEF Post
    <3>3. QED
      BY <3>2 DEF Busy
  <2>2. \A i \in DOMAIN posts : posts[i].val \in chosen'[posts[i].prop]
    BY <1>1, <2>1 DEF Inv, Chosen
  <2>3. QED
    BY <1>1, <1>4, <2>2 DEF Chosen
<1>8. Landing'
  BY <1>1, <1>2 DEF Inv, Landing, TypeOK
<1>9. Shown'
  BY <1>1, <1>4 DEF Shown, Agrees, InTime
<1>10. QED
  BY <1>5, <1>6, <1>7, <1>8, <1>9 DEF Inv

(* It opens, closes, or shows what was read. *)
LEMMA PanelKeeps ==
  ASSUME Inv, OpenPanel \/ ClosePanel \/ ShowSettings \/ LoadFails
  PROVE  Inv'
<1>1. UNCHANGED <<kind, control, held, posts, camera, chosen, trouble, behind, logged>>
  BY DEF OpenPanel, ClosePanel, ShowSettings, LoadFails, inputVars, historyVars
<1>2. /\ panel' \in {"closed", "loading", "shown", "empty"}
      /\ panel' = "shown" => panel = "read"
  BY DEF OpenPanel, ClosePanel, ShowSettings, LoadFails
<1>3. TypeOK'
  BY <1>1, <1>2 DEF Inv, TypeOK
<1>4. Within'
  BY <1>1 DEF Inv, Within, Domain
<1>5. Chosen'
  BY <1>1, <1>2 DEF Inv, Chosen
<1>6. Landing'
  BY <1>1 DEF Inv, Landing, Unhandled
<1>7. Shown'
  BY <1>1 DEF Inv, Shown, Cause, Newest, Agrees, InTime
<1>8. QED
  BY <1>3, <1>4, <1>5, <1>6, <1>7 DEF Inv

-----------------------------------------------------------------------------
(* The answers. *)

LEMMA DoneKeeps ==
  ASSUME Inv, NEW i \in DOMAIN posts, success(i) \/ failure(i)
  PROVE  Inv'
<1> DEFINE q == posts[i].prop
<1>1. posts \in Seq(Post) /\ posts[i] \in Post
  BY DEF Inv, TypeOK
<1>2. q \in Properties /\ posts[i].reply \in {"OK", "rejected", "failed"}
  BY <1>1 DEF Post, Replies, success, failure
<1>3. /\ posts' = RemoveAt(posts, i)
      /\ trouble' = [trouble EXCEPT ![q] = @ \union ({posts[i].reply} \ {"OK"})]
      /\ UNCHANGED <<kind, panel, control, held, camera, chosen, behind>>
  BY DEF success, failure, Done, inputVars
<1>4. logged' = IF posts[i].reply = "rejected" THEN logged \union {q} ELSE logged
  BY DEF success, failure
<1>5. /\ posts' \in Seq(Post) /\ Len(posts') = Len(posts) - 1
      /\ \A j \in DOMAIN posts' : \E k \in DOMAIN posts : posts'[j] = posts[k]
      /\ \A k \in DOMAIN posts : k # i => \E j \in DOMAIN posts' : posts'[j] = posts[k]
      /\ \A j \in DOMAIN posts' : /\ (IF j < i THEN j ELSE j + 1) \in DOMAIN posts
                                 /\ posts'[j] = posts[IF j < i THEN j ELSE j + 1]
      /\ \A k \in DOMAIN posts : k # i => /\ (IF k < i THEN k ELSE k - 1) \in DOMAIN posts'
                                          /\ posts'[IF k < i THEN k ELSE k - 1] = posts[k]
  BY <1>1, <1>3, Removed
<1> HIDE DEF q
<1>6. TypeOK'
  <2>1. trouble' \in [Properties -> SUBSET {"rejected", "failed"}]
    BY <1>2, <1>3 DEF Inv, TypeOK
  <2>2. logged' \subseteq {p \in Properties : "rejected" \in trouble'[p]}
    BY <1>2, <1>3, <1>4 DEF Inv, TypeOK
  <2>3. Len(posts') <= MaxPosts
    BY <1>1, <1>5, ControlAssumption DEF Inv, TypeOK
  <2>4. QED
    BY <1>3, <1>5, <2>1, <2>2, <2>3 DEF Inv, TypeOK
<1>7. Within'
  BY <1>3, <1>5 DEF Inv, Within, Domain
<1>8. Chosen'
  BY <1>3, <1>5 DEF Inv, Chosen
<1>9. Landing'
  <2> SUFFICES ASSUME NEW p \in Properties
               PROVE  /\ behind[p] = "others" \/ trouble'[p] # {} \/ camera[p] \in chosen[p] \/ Unhandled(p)'
                      /\ "rejected" \in trouble'[p] => p \in logged'
    BY <1>3 DEF Landing
  <2>1. trouble[p] \subseteq trouble'[p]
    BY <1>2, <1>3 DEF Inv, TypeOK
  <2>2. Unhandled(p) => Unhandled(p)' \/ trouble'[p] # {}
    <3> SUFFICES ASSUME NEW k \in DOMAIN posts, posts[k].prop = p, posts[k].reply # "OK"
                 PROVE  Unhandled(p)' \/ trouble'[p] # {}
      BY DEF Unhandled
    <3>1. CASE k = i
      BY <1>2, <1>3, <3>1 DEF Inv, TypeOK, q
    <3>2. CASE k # i
      BY <1>5, <3>2 DEF Unhandled
    <3>3. QED
      BY <3>1, <3>2
  <2>3. "rejected" \in trouble'[p] => p \in logged'
    BY <1>2, <1>3, <1>4 DEF Inv, TypeOK, Landing
  <2>4. QED
    BY <2>1, <2>2, <2>3 DEF Inv, Landing
<1>10. Shown'
  <2> SUFFICES ASSUME NEW p \in Properties
               PROVE  Cause(p)' \/ Newest(p)' \/ Agrees(p)'
    BY DEF Shown
  <2>1. CASE p = q /\ posts[i].reply # "OK"
    <3>1. Cause(p)'
      BY <1>2, <1>3, <1>4, <2>1 DEF Cause, Inv, TypeOK
    <3>2. QED
      BY <3>1
  <2>2. CASE p # q \/ posts[i].reply = "OK"
    <3>1. Cause(p) => Cause(p)'
      BY <1>2, <1>3, <1>4 DEF Cause, Inv, TypeOK
    <3>2. ASSUME Newest(p) PROVE Newest(p)'
      <4>1. PICK w \in DOMAIN posts :
               /\ posts[w].prop = p /\ posts[w].reply # "OK" /\ posts[w].late = "no"
               /\ \A j \in DOMAIN posts : j >= w /\ posts[j].prop = p => posts[j].val = control[p]
        BY <3>2 DEF Newest
      <4>2. w # i
        BY <2>2, <4>1 DEF q
      <4> DEFINE n == IF w < i THEN w ELSE w - 1
      <4>3. n \in DOMAIN posts' /\ posts'[n] = posts[w]
        BY <1>5, <4>2
      <4>4. \A j \in DOMAIN posts' : j >= n => (IF j < i THEN j ELSE j + 1) >= w
        BY <1>1, <1>5, <4>2
      <4> HIDE DEF n
      <4>5. \A j \in DOMAIN posts' : j >= n /\ posts'[j].prop = p => posts'[j].val = control[p]
        BY <1>5, <4>1, <4>4
      <4>6. QED
        BY <1>3, <4>1, <4>3, <4>5 DEF Newest
    <3>3. Agrees(p) => Agrees(p)'
      BY <1>3, <1>5 DEF Agrees, InTime
    <3>4. QED
      BY <3>1, <3>2, <3>3 DEF Inv, Shown
  <2>3. QED
    BY <2>1, <2>2
<1>11. QED
  BY <1>6, <1>7, <1>8, <1>9, <1>10 DEF Inv

(* A POST is handled, and earlier ones of its property are late now. *)
LEMMA AcceptKeeps ==
  ASSUME Inv, NEW i \in DOMAIN posts, Accept(i)
  PROVE  Inv'
<1> DEFINE q == posts[i].prop
<1>1. posts \in Seq(Post) /\ DOMAIN posts = 1 .. Len(posts) /\ Len(posts) \in Nat
  BY DEF Inv, TypeOK
<1>2. /\ q \in Properties /\ posts[i].val \in Values /\ posts[i].late \in Delays
      /\ posts[i].reply = "none"
  <2>1. posts[i] \in Post
    BY <1>1
  <2>2. posts[i].reply = "none"
    BY DEF Accept, Arrived
  <2>3. QED
    BY <2>1, <2>2 DEF Post
<1>3. UNCHANGED <<kind, panel, control, held, chosen, trouble, logged>>
  BY DEF Accept, inputVars
<1>4. /\ camera' = [camera EXCEPT ![q] = posts[i].val]
      /\ behind' = [behind EXCEPT ![q] = posts[i].late]
  BY DEF Accept
<1>5. /\ DOMAIN posts' = DOMAIN posts
      /\ \A j \in DOMAIN posts :
           /\ posts'[j].prop = posts[j].prop /\ posts'[j].val = posts[j].val
           /\ posts'[j].reply = IF j = i THEN "OK" ELSE posts[j].reply
           /\ posts'[j].late = IF j = i THEN "no"
                               ELSE IF Overtakes(i, j) THEN "overtaken" ELSE posts[j].late
      /\ posts' \in Seq(Post) /\ Len(posts') = Len(posts)
  <2> DEFINE post(j) == IF j = i THEN [posts[i] EXCEPT !.reply = "OK", !.late = "no"]
                        ELSE IF Overtakes(i, j) THEN [posts[j] EXCEPT !.late = "overtaken"]
                        ELSE posts[j]
  <2>1. posts' = [j \in DOMAIN posts |-> post(j)]
    BY DEF Accept
  <2>2. \A j \in DOMAIN posts :
          /\ post(j) \in Post
          /\ post(j).prop = posts[j].prop /\ post(j).val = posts[j].val
          /\ post(j).reply = IF j = i THEN "OK" ELSE posts[j].reply
          /\ post(j).late = IF j = i THEN "no"
                            ELSE IF Overtakes(i, j) THEN "overtaken" ELSE posts[j].late
    <3> SUFFICES ASSUME NEW j \in DOMAIN posts
                 PROVE  /\ post(j) \in Post
                        /\ post(j).prop = posts[j].prop /\ post(j).val = posts[j].val
                        /\ post(j).reply = IF j = i THEN "OK" ELSE posts[j].reply
                        /\ post(j).late = IF j = i THEN "no"
                                          ELSE IF Overtakes(i, j) THEN "overtaken" ELSE posts[j].late
      OBVIOUS
    <3>1. posts[j] \in Post /\ {"no", "overtaken"} \subseteq Delays /\ "OK" \in Replies
      BY <1>1 DEF Delays, Replies
    <3>2. CASE j = i
      BY <3>1, <3>2 DEF Post
    <3>3. CASE j # i /\ Overtakes(i, j)
      BY <3>1, <3>3 DEF Post
    <3>4. CASE j # i /\ ~Overtakes(i, j)
      BY <3>1, <3>4
    <3>5. QED
      BY <3>2, <3>3, <3>4
  <2> HIDE DEF post
  <2>3. posts' \in [1 .. Len(posts) -> Post]
    BY <1>1, <2>1, <2>2
  <2>4. QED
    BY <1>1, <2>1, <2>2, <2>3
<1> HIDE DEF q
<1>6. TypeOK'
  BY <1>2, <1>3, <1>4, <1>5 DEF Inv, TypeOK
<1>7. Within'
  <2>1. \A p \in Properties : camera'[p] \in Domain(p)
    BY <1>2, <1>4 DEF Inv, Within, TypeOK, q
  <2>2. QED
    BY <1>3, <1>5, <2>1 DEF Inv, Within, Domain
<1>8. Chosen'
  BY <1>3, <1>5 DEF Inv, Chosen
<1>9. ASSUME NEW p \in Properties
      PROVE  /\ camera'[p] = IF p = q THEN posts[i].val ELSE camera[p]
             /\ behind'[p] = IF p = q THEN posts[i].late ELSE behind[p]
  BY <1>2, <1>4 DEF Inv, TypeOK
<1>10. Landing'
  <2> SUFFICES ASSUME NEW p \in Properties
               PROVE  behind'[p] = "others" \/ trouble[p] # {} \/ camera'[p] \in chosen[p] \/ Unhandled(p)'
    BY <1>3 DEF Inv, Landing
  <2>1. CASE p = q
    <3>1. posts[i].val \in chosen[p]
      BY <2>1 DEF Inv, Chosen, q
    <3>2. QED
      BY <1>9, <2>1, <3>1
  <2>2. CASE p # q
    <3>1. Unhandled(p) => Unhandled(p)'
      BY <1>5, <2>2 DEF Unhandled, q
    <3>2. QED
      BY <1>9, <2>2, <3>1 DEF Inv, Landing
  <2>3. QED
    BY <2>1, <2>2
<1>11. Shown'
  <2> SUFFICES ASSUME NEW p \in Properties
               PROVE  Cause(p)' \/ Newest(p)' \/ Agrees(p)'
    BY DEF Shown
  <2>1. Cause(p) => Cause(p)'
    BY <1>3 DEF Cause
  <2>2. CASE p # q
    <3>1. \A j \in DOMAIN posts : posts[j].prop = p => posts'[j].reply = posts[j].reply
                                                      /\ posts'[j].late = posts[j].late
      BY <1>5, <2>2 DEF Overtakes, q
    <3>2. Newest(p) => Newest(p)'
      BY <1>3, <1>5, <3>1 DEF Newest
    <3>3. Agrees(p) => Agrees(p)'
      BY <1>3, <1>5, <1>9, <2>2, <3>1 DEF Agrees, InTime
    <3>4. QED
      BY <2>1, <3>2, <3>3 DEF Inv, Shown
  <2>3. CASE p = q
    <3>1. \A j \in DOMAIN posts : /\ posts[j].prop = p /\ InTime(j)'
                                  => j # i /\ InTime(j) /\ ~(j < i)
      BY <1>5, <2>3 DEF InTime, Overtakes, q
    <3>2. ASSUME Agrees(p) PROVE Agrees(p)'
      <4>1. posts[i].val # control[p] => posts[i].late # "no"
        BY <1>2, <2>3, <3>2 DEF Agrees, InTime, q
      <4>2. QED
        BY <1>3, <1>5, <1>9, <2>3, <3>1, <3>2, <4>1 DEF Agrees
    <3>3. ASSUME NEW w \in DOMAIN posts,
                 posts[w].prop = p, posts[w].reply # "OK", posts[w].late = "no",
                 \A j \in DOMAIN posts : j >= w /\ posts[j].prop = p => posts[j].val = control[p]
          PROVE  Newest(p)' \/ Agrees(p)'
      <4>1. CASE w > i
        <5>1. w # i /\ ~Overtakes(i, w)
          BY <1>1, <4>1 DEF Overtakes
        <5>2. QED
          BY <1>3, <1>5, <3>3, <5>1 DEF Newest
      <4>2. CASE ~(w > i)
        <5>1. i >= w /\ \A j \in DOMAIN posts : ~(j < i) => j >= w
          BY <1>1, <4>2
        <5>2. camera'[p] = control[p]
          BY <1>9, <2>3, <3>3, <5>1 DEF q
        <5>3. \A j \in DOMAIN posts : posts[j].prop = p /\ InTime(j)' => posts[j].val = control[p]
          BY <3>1, <3>3, <5>1
        <5>4. QED
          BY <1>3, <1>5, <5>2, <5>3 DEF Agrees
      <4>3. QED
        BY <4>1, <4>2
    <3>4. QED
      BY <2>1, <3>2, <3>3 DEF Inv, Shown, Newest
  <2>4. QED
    BY <2>2, <2>3
<1>12. QED
  BY <1>6, <1>7, <1>8, <1>10, <1>11 DEF Inv

(* An answer with bad news is on its way, or an answer is lost. *)
LEMMA AnswerKeeps ==
  ASSUME Inv, NEW i \in DOMAIN posts, Reject(i) \/ Refuse(i) \/ LoseAnswer(i)
  PROVE  Inv'
<1>1. posts \in Seq(Post) /\ DOMAIN posts = 1 .. Len(posts) /\ posts[i] \in Post
  BY DEF Inv, TypeOK
<1>2. UNCHANGED <<kind, panel, control, held, camera, chosen, trouble, behind, logged>>
  BY DEF Reject, Refuse, LoseAnswer, inputVars, historyVars
<1>3. PICK r \in {"rejected", "failed"} :
         posts' = [posts EXCEPT ![i].reply = r, ![i].late = "no"]
  BY DEF Reject, Refuse, LoseAnswer, Answer
<1>4. /\ DOMAIN posts' = DOMAIN posts
      /\ \A j \in DOMAIN posts : /\ posts'[j].prop = posts[j].prop /\ posts'[j].val = posts[j].val
                                 /\ posts'[j].reply = IF j = i THEN r ELSE posts[j].reply
                                 /\ posts'[j].late = IF j = i THEN "no" ELSE posts[j].late
      /\ posts' \in Seq(Post) /\ Len(posts') = Len(posts)
  <2> DEFINE post == [posts[i] EXCEPT !.reply = r, !.late = "no"]
  <2>1. /\ post \in Post
        /\ post.prop = posts[i].prop /\ post.val = posts[i].val
        /\ post.reply = r /\ post.late = "no"
    <3>1. posts[i] \in Post /\ r \in Replies /\ "no" \in Delays
      BY <1>1 DEF Delays, Replies
    <3>2. QED
      BY <3>1 DEF Post
  <2>2. posts' = [posts EXCEPT ![i] = post]
    BY <1>3
  <2> HIDE DEF post
  <2>3. QED
    BY <1>1, <2>1, <2>2
<1>5. TypeOK'
  BY <1>2, <1>4 DEF Inv, TypeOK
<1>6. Within'
  BY <1>2, <1>4 DEF Inv, Within, Domain
<1>7. Chosen'
  BY <1>2, <1>4 DEF Inv, Chosen
<1>8. Landing'
  <2>1. \A p \in Properties : Unhandled(p) => Unhandled(p)'
    BY <1>4 DEF Unhandled
  <2>2. QED
    BY <1>2, <2>1 DEF Inv, Landing
<1>9. Shown'
  <2> SUFFICES ASSUME NEW p \in Properties
               PROVE  Cause(p)' \/ Newest(p)' \/ Agrees(p)'
    BY DEF Shown
  <2>1. Cause(p) => Cause(p)'
    BY <1>2 DEF Cause
  <2>2. Newest(p) => Newest(p)'
    BY <1>2, <1>4 DEF Newest
  <2>3. Agrees(p) => Agrees(p)'
    BY <1>2, <1>4 DEF Agrees, InTime
  <2>4. QED
    BY <2>1, <2>2, <2>3 DEF Inv, Shown
<1>10. QED
  BY <1>5, <1>6, <1>7, <1>8, <1>9 DEF Inv

LEMMA ElsewhereKeeps ==
  ASSUME Inv, NEW p \in Properties, NEW v \in Values, SetElsewhere(p, v)
  PROVE  Inv'
<1>1. /\ v \in Domain(p) /\ camera' = [camera EXCEPT ![p] = v]
      /\ behind' = [behind EXCEPT ![p] = "others"]
      /\ UNCHANGED <<kind, panel, control, held, posts, chosen, trouble, logged>>
  BY DEF SetElsewhere, inputVars
<1>2. TypeOK'
  BY <1>1 DEF Inv, TypeOK
<1>3. Within'
  BY <1>1 DEF Inv, Within, Domain, TypeOK
<1>4. Chosen'
  BY <1>1 DEF Inv, Chosen
<1>5. Landing'
  BY <1>1 DEF Inv, Landing, Unhandled, TypeOK
<1>6. Shown'
  <2> SUFFICES ASSUME NEW x \in Properties
               PROVE  Cause(x)' \/ Newest(x)' \/ Agrees(x)'
    BY DEF Shown
  <2>1. (Cause(x) => Cause(x)') /\ (Newest(x) => Newest(x)')
    BY <1>1 DEF Cause, Newest
  <2>2. Agrees(x) => Agrees(x)'
    BY <1>1 DEF Agrees, InTime, Inv, TypeOK
  <2>3. QED
    BY <2>1, <2>2 DEF Inv, Shown
<1>7. QED
  BY <1>2, <1>3, <1>4, <1>5, <1>6 DEF Inv

-----------------------------------------------------------------------------
LEMMA InvFromInit ==
  ASSUME Init
  PROVE  Inv
<1>1. TypeOK
  BY ControlAssumption DEF Init, TypeOK, Delays
<1>2. Within
  BY DEF Init, Within
<1>3. Chosen
  BY DEF Init, Chosen
<1>4. Landing
  BY DEF Init, Landing
<1>5. Shown
  BY DEF Init, Shown, Agrees
<1>6. QED
  BY <1>1, <1>2, <1>3, <1>4, <1>5 DEF Inv

LEMMA InvKept ==
  ASSUME Inv, [Next]_vars
  PROVE  Inv'
<1>1. CASE UNCHANGED vars
  <2>1. UNCHANGED <<kind, panel, control, held, posts, camera, chosen, trouble, behind, logged>>
    BY <1>1 DEF vars, inputVars, historyVars
  <2>2. TypeOK' /\ Chosen'
    BY <2>1 DEF Inv, TypeOK, Chosen
  <2>3. Within' /\ Landing'
    BY <2>1 DEF Inv, Within, Domain, Landing, Unhandled
  <2>4. Shown'
    BY <2>1 DEF Inv, Shown, Cause, Newest, Agrees, InTime
  <2>5. QED
    BY <2>2, <2>3, <2>4 DEF Inv
<1>2. CASE UserStep
  BY <1>2, UserEventKeeps, ResetKeeps, PanelKeeps, ControlAssumption DEF UserStep
<1>3. CASE PageStep
  BY <1>3, PanelKeeps, DoneKeeps DEF PageStep
<1>4. CASE ServerStep
  BY <1>4, ReadKeeps, AcceptKeeps, AnswerKeeps DEF ServerStep
<1>5. CASE WorldStep
  BY <1>5, PanelKeeps, AnswerKeeps, ElsewhereKeeps DEF WorldStep
<1>6. QED
  BY <1>1, <1>2, <1>3, <1>4, <1>5 DEF Next

LEMMA InvHolds == Safety => []Inv
<1>1. Init => Inv
  BY InvFromInit
<1>2. Inv /\ [Next]_vars => Inv'
  BY InvKept
<1>3. QED
  BY <1>1, <1>2, PTL DEF Safety

(* TypeOK holds in every reachable state; what the page logged about a     *)
(* property was rejected since its last burst began.                       *)
THEOREM TypeCorrect == Safety => []TypeOK
<1>1. Inv => TypeOK
  BY DEF Inv
<1>2. QED
  BY <1>1, InvHolds, PTL

(* However POSTs overtake one another, a burst that went well leaves the   *)
(* camera with one of its own values.                                      *)
THEOREM BurstsLand == Safety => []BurstLands
<1>1. Inv => BurstLands
  <2> SUFFICES ASSUME Inv, panel = "shown", NEW p \in Properties
               PROVE  /\ control[p] \in chosen[p]
                      /\ ~Busy(p) /\ trouble[p] = {} /\ behind[p] # "others" => camera[p] \in chosen[p]
    BY DEF BurstLands
  <2>1. control[p] \in chosen[p]
    BY DEF Inv, Chosen
  <2>2. ~Busy(p) => ~Unhandled(p)
    BY DEF Busy, Unhandled
  <2>3. QED
    BY <2>1, <2>2 DEF Inv, Landing
<1>2. QED
  BY <1>1, InvHolds, PTL

(* A quiet control that differs from the camera has one of five reasons:   *)
(* others, an overtaken POST, a POST older than the panel, a rejection     *)
(* that was logged, or a failure.  The newest POST lands otherwise.        *)
THEOREM DifferencesExplained == Safety => []Explained
<1>1. Inv => Explained
  <2> SUFFICES ASSUME Inv, NEW p \in Properties, ~Busy(p), camera[p] # control[p]
               PROVE  behind[p] # "no" \/ p \in logged \/ "failed" \in trouble[p]
    BY DEF Explained
  <2>1. ~Newest(p)
    BY DEF Newest, Busy
  <2>2. Cause(p) \/ Agrees(p)
    BY <2>1 DEF Inv, Shown
  <2>3. QED
    BY <2>2 DEF Cause, Agrees
<1>2. QED
  BY <1>1, InvHolds, PTL

=============================================================================
