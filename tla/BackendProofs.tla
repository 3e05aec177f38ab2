--------------------------- MODULE BackendProofs ---------------------------
(***************************************************************************)
(* What holds of the backend's requests for any replicas, handlers,        *)
(* devices, users and bounds: the caches agree with the registry, and      *)
(* every answer is the one that the registry asks for unless the request   *)
(* met an error; and what the relay does with the posts: the broker gets   *)
(* what was posted, in the order in which the replica took it, and every   *)
(* repetition and every loss has its fault.                                *)
(*                                                                         *)
(* A handler looks something up in one step and uses it in a later one,    *)
(* while the other handlers of its replica write to the same caches, so    *)
(* HandlersInv says of each place in a handler what was found there.       *)
(* RelayInv says where each post may be: SentInv orders what was relayed,  *)
(* is in hand and is queued; Repeats and Paid count the rest.              *)
(***************************************************************************)
EXTENDS Backend, FiniteSetTheorems, TLAPS

At == {"idle", "begun", "inserted", "found", "cached", "keyed",
       "user", "device", "known", "valid"}

RequestType ==
    [on : Replica \cup {""}, op : Op, name : Name \cup {""}, ok : BOOLEAN, err : BOOLEAN, at : At]

\* The registry and the caches have their types and agree.
RegistryInv ==
    /\ devices \subseteq generated /\ generated \subseteq Device
    /\ keys \in [Replica -> SUBSET Device]
    /\ creds \in [Replica -> SUBSET Device]
    /\ isUser \in [Replica -> SUBSET (Name \X BOOLEAN)]
    /\ \A r \in Replica : keys[r] \subseteq devices
    /\ \A r \in Replica : creds[r] \subseteq devices
    /\ \A r \in Replica : \A e \in isUser[r] : e[2] = (e[1] \in User)

\* Services and requests have theirs.
HandlerType ==
    /\ svc \in [Replica -> {"up", "draining", "closing"}]
    /\ req \in [Handler -> RequestType]
    /\ errors \in Nat

\* What a handler knows where it stands, with these devices registered.
Knows(registered, q) ==
    /\ q.op # "none" => q.on \in Replica
    /\ q.at \in {"found", "cached", "keyed"} => q.name \in registered
    /\ q.at = "user" => q.op = "connect" /\ q.name \in User
    /\ q.at = "device" => q.op = "connect" /\ (q.name \notin User \/ q.err)
    /\ q.at = "valid" => q.op = "login" /\ q.name \in User /\ q.ok
    /\ q.op = "topic" => q.name \in Name

HandlersInv ==
    /\ RegistryInv
    /\ HandlerType
    /\ \A h \in Handler : Knows(devices, req[h])

handlers == <<registry, svc, req, errors>>

\* The invariant says that the caches agree with the registry.
LEMMA HandlersAgree == HandlersInv => CachedIsRegistered
BY DEF HandlersInv, RegistryInv, CachedIsRegistered, Knows

\* An idle handler's request has its type and knows nothing.
LEMMA IdleKnows ==
    /\ Idle \in RequestType /\ Idle.at = "idle" /\ Idle.op = "none"
    /\ \A registered : Knows(registered, Idle)
<1>1. Idle \in RequestType /\ Idle.at = "idle" /\ Idle.op = "none"
  BY DEF Idle, RequestType, Op, At
<1> QED  BY <1>1 DEF Knows

\* The registry's part when only devices are added.
LEMMA RegistryGrows ==
    ASSUME RegistryInv, UNCHANGED caches, devices \subseteq devices',
           devices' \subseteq generated', generated' \subseteq Device
    PROVE  RegistryInv'
BY DEF RegistryInv, caches

\* The registry's part when nothing of it changes.
LEMMA RegistryStays == RegistryInv /\ UNCHANGED registry => RegistryInv'
BY DEF RegistryInv, registry, caches

\* The invariant when the registry's part holds and one request changes.
LEMMA OneRequest ==
    ASSUME HandlersInv, RegistryInv', devices \subseteq devices', NEW h \in Handler,
           NEW q \in RequestType, req' = [req EXCEPT ![h] = q], Knows(devices', q),
           svc' = svc, errors' \in Nat
    PROVE  HandlersInv'
<1>1. HandlerType'
  BY DEF HandlersInv, HandlerType
<1>2. ASSUME NEW g \in Handler  PROVE Knows(devices', req'[g])
  <2>1. CASE g = h
    BY <2>1 DEF HandlersInv, HandlerType
  <2>2. CASE g # h
    <3>1. req'[g] = req[g] /\ Knows(devices, req[g])
      BY <2>2 DEF HandlersInv, HandlerType
    <3> QED  BY <3>1 DEF Knows
  <2> QED  BY <2>1, <2>2
<1> QED  BY <1>1, <1>2 DEF HandlersInv

\* At the start no handler has a request.
LEMMA HandlersStart == Init => HandlersInv
<1> SUFFICES ASSUME Init  PROVE HandlersInv
  OBVIOUS
<1>1. RegistryInv
  BY DEF Init, RegistryInv
<1>2. HandlerType
  BY IdleKnows DEF Init, HandlerType
<1>3. \A h \in Handler : req[h] = Idle
  BY DEF Init
<1> QED  BY <1>1, <1>2, <1>3, IdleKnows DEF HandlersInv

\* The count of errors stays a number whether or not a call errs.
LEMMA ErrorsAreCounted == HandlersInv /\ (NoError \/ Errs) => errors' \in Nat
BY DEF HandlersInv, HandlerType, NoError, Errs, faults

\* The invariant when a handler answers and changes nothing else.
LEMMA Ends ==
    ASSUME HandlersInv, NEW h \in Handler, UNCHANGED <<registry, svc>>,
           req' = [req EXCEPT ![h] = Idle], errors' \in Nat
    PROVE  HandlersInv'
<1>1. RegistryInv' /\ devices \subseteq devices'
  BY RegistryStays DEF HandlersInv, registry
<1> QED  BY <1>1, IdleKnows, OneRequest

\* The invariant when a handler goes on, having put what it found in a cache
\* or not.
LEMMA GoesOn ==
    ASSUME HandlersInv, RegistryInv', UNCHANGED <<devices, svc>>, NEW h \in Handler,
           NEW at \in At, Goes(h, at), errors' \in Nat,
           at \in {"found", "cached", "keyed"} => req[h].name \in devices,
           at = "user" => req[h].op = "connect" /\ req[h].name \in User,
           at = "device" => req[h].op = "connect" /\ (req[h].name \notin User \/ errors' # errors),
           at = "valid" => req[h].op = "login" /\ req[h].name \in User /\ req[h].ok
    PROVE  HandlersInv'
<1>1. PICK b \in BOOLEAN : b = (req[h].err \/ errors' # errors)
  OBVIOUS
<1> DEFINE q == [req[h] EXCEPT !.at = at, !.err = b]
<1>2. req[h] \in RequestType /\ Knows(devices, req[h])
  BY DEF HandlersInv, HandlerType
<1>3. /\ q \in RequestType /\ q.at = at /\ q.op = req[h].op /\ q.name = req[h].name
      /\ q.ok = req[h].ok /\ q.err = b /\ q.on = req[h].on
  BY <1>2 DEF RequestType
<1>4. req' = [req EXCEPT ![h] = q]
  BY <1>1, <1>2 DEF Goes, HandlersInv, HandlerType, RequestType
<1> HIDE DEF q
<1>5. Knows(devices', q)
  BY <1>1, <1>2, <1>3 DEF Knows
<1> QED  BY <1>3, <1>4, <1>5, OneRequest

\* The invariant when a handler goes on and leaves the caches alone.
LEMMA GoesOnAlone ==
    ASSUME HandlersInv, NEW h \in Handler, UNCHANGED <<registry, svc>>,
           NEW at \in At, Goes(h, at), errors' \in Nat,
           at \in {"found", "cached", "keyed"} => req[h].name \in devices,
           at = "user" => req[h].op = "connect" /\ req[h].name \in User,
           at = "device" => req[h].op = "connect" /\ (req[h].name \notin User \/ errors' # errors),
           at = "valid" => req[h].op = "login" /\ req[h].name \in User /\ req[h].ok
    PROVE  HandlersInv'
<1>1. RegistryInv' /\ UNCHANGED devices
  BY RegistryStays DEF HandlersInv, registry
<1> QED  BY <1>1, GoesOn

\* Nothing that the invariant is about changes.
LEMMA Stays == HandlersInv /\ UNCHANGED handlers => HandlersInv'
BY RegistryStays DEF HandlersInv, HandlerType, handlers, registry, caches

\* What a handler of a request knows: its replica, and what it found.
LEMMA Standing ==
    ASSUME HandlersInv, NEW h \in Handler, NEW op \in Op \ {"none"}, NEW at \in At, Stands(h, op, at)
    PROVE  /\ req[h] \in RequestType /\ req[h].on \in Replica
           /\ at \in {"found", "cached", "keyed"} => req[h].name \in devices
BY DEF HandlersInv, HandlerType, Knows, Stands

\* A cache of keys or credentials that takes in a device that was found.
LEMMA CacheTakes ==
    ASSUME HandlersInv, NEW r \in Replica, NEW d \in devices, UNCHANGED <<devices, generated, isUser>>,
           \/ keys' = [keys EXCEPT ![r] = @ \cup {d}] /\ creds' = creds
           \/ creds' = [creds EXCEPT ![r] = @ \cup {d}] /\ keys' = keys
    PROVE  RegistryInv'
<1>1. d \in Device /\ devices \subseteq Device
  BY DEF HandlersInv, RegistryInv
<1>2. CASE keys' = [keys EXCEPT ![r] = @ \cup {d}] /\ creds' = creds
  <2>1. keys' \in [Replica -> SUBSET Device] /\ \A s \in Replica : keys'[s] \subseteq devices
    BY <1>1, <1>2 DEF HandlersInv, RegistryInv
  <2> QED  BY <1>2, <2>1 DEF HandlersInv, RegistryInv
<1>3. CASE creds' = [creds EXCEPT ![r] = @ \cup {d}] /\ keys' = keys
  <2>1. creds' \in [Replica -> SUBSET Device] /\ \A s \in Replica : creds'[s] \subseteq devices
    BY <1>1, <1>3 DEF HandlersInv, RegistryInv
  <2> QED  BY <1>3, <2>1 DEF HandlersInv, RegistryInv
<1> QED  BY <1>2, <1>3

\* The cache of names that takes in what the collection says of a name.
LEMMA NameIsRemembered ==
    ASSUME HandlersInv, NEW h \in Handler, req[h].on \in Replica, req[h].name \in Name,
           Remember(h, req[h].name \in User), UNCHANGED <<devices, generated, keys, creds>>
    PROVE  RegistryInv'
<1> DEFINE r == req[h].on
           n == req[h].name
<1>1. PICK b \in BOOLEAN : b = (n \in User)
  <2>1. CASE n \in User
    BY <2>1, Zenon
  <2>2. CASE n \notin User
    <3>1. FALSE = (n \in User)
      BY <2>2
    <3> QED  BY <3>1, Zenon
  <2> QED  BY <2>1, <2>2
<1> DEFINE u == {e \in isUser[r] : e[1] # n} \cup {<<n, b>>}
<1>2. isUser[r] \in SUBSET (Name \X BOOLEAN) /\ \A e \in isUser[r] : e[2] = (e[1] \in User)
  BY DEF HandlersInv, RegistryInv
<1>3. u \in SUBSET (Name \X BOOLEAN)
  <2>1. {e \in isUser[r] : e[1] # n} \in SUBSET (Name \X BOOLEAN)
    BY <1>2
  <2>2. <<n, b>> \in Name \X BOOLEAN
    BY <1>1
  <2> QED  BY <2>1, <2>2
<1>4. \A e \in u : e[2] = (e[1] \in User)
  BY <1>1, <1>2
<1>5. isUser' = [isUser EXCEPT ![r] = u]
  BY <1>1 DEF Remember
<1> HIDE DEF u
<1>6. isUser' \in [Replica -> SUBSET (Name \X BOOLEAN)]
  BY <1>3, <1>5 DEF HandlersInv, RegistryInv
<1>7. \A s \in Replica : \A e \in isUser'[s] : e[2] = (e[1] \in User)
  <2> TAKE s \in Replica
  <2>1. CASE s = r
    BY <1>4, <1>5, <2>1 DEF HandlersInv, RegistryInv
  <2>2. CASE s # r
    <3>1. isUser'[s] = isUser[s]
      BY <1>5, <2>2 DEF HandlersInv, RegistryInv
    <3> QED  BY <3>1 DEF HandlersInv, RegistryInv
  <2> QED  BY <2>1, <2>2
<1> QED  BY <1>6, <1>7 DEF HandlersInv, RegistryInv

\* No step of a handler breaks the invariant.
LEMMA ServeKeeps ==
    ASSUME HandlersInv, NEW h \in Handler, Serve(h)
    PROVE  HandlersInv'
<1> DEFINE n == req[h].name
           Ended == /\ req' = [req EXCEPT ![h] = Idle] /\ UNCHANGED <<registry, svc>>
                    /\ NoError \/ Errs
<1>e. Ended => HandlersInv'
  BY ErrorsAreCounted, Ends
<1>n. NoError => errors' = errors /\ errors' \in Nat
  BY ErrorsAreCounted DEF NoError, faults
<1>r. Errs => errors' # errors /\ errors' \in Nat
  BY ErrorsAreCounted DEF Errs, HandlersInv, HandlerType
<1>k. \A r \in Replica : keys[r] \subseteq devices /\ creds[r] \subseteq devices
  BY DEF HandlersInv, RegistryInv
<1>o. /\ "create" \in Op \ {"none"} /\ "post" \in Op \ {"none"} /\ "connect" \in Op \ {"none"}
      /\ "credentials" \in Op \ {"none"} /\ "topic" \in Op \ {"none"}
      /\ "begun" \in At /\ "found" \in At /\ "device" \in At
  BY DEF Op, At
<1>1. CASE InsertOne(h)
  <2>1. PICK d \in Device \ generated :
            /\ generated' = generated \cup {d}
            /\ \/ /\ devices' = devices \cup {d}
                  /\ req' = [req EXCEPT ![h].name = d, ![h].at = "inserted"]
                  /\ NoError
               \/ /\ Errs /\ req' = [req EXCEPT ![h] = Idle]
                  /\ devices' \in {devices, devices \cup {d}}
    BY <1>1 DEF InsertOne, Answer, Says
  <2>2. Stands(h, "create", "begun") /\ UNCHANGED <<svc, caches>>
    BY <1>1 DEF InsertOne, requestSame
  <2>3. devices \subseteq devices' /\ devices' \subseteq generated' /\ generated' \subseteq Device
    BY <2>1 DEF HandlersInv, RegistryInv
  <2>4. RegistryInv'
    BY <2>2, <2>3, RegistryGrows DEF HandlersInv
  <2>5. CASE NoError /\ req' = [req EXCEPT ![h].name = d, ![h].at = "inserted"]
    <3> DEFINE q == [req[h] EXCEPT !.name = d, !.at = "inserted"]
    <3>1. req[h] \in RequestType /\ req[h].on \in Replica /\ req[h].op = "create"
      BY <1>o, <2>2, Standing DEF Stands
    <3>2. q \in RequestType /\ q.at = "inserted" /\ q.op = "create" /\ q.on \in Replica
      BY <3>1 DEF RequestType, At, Name
    <3>3. req' = [req EXCEPT ![h] = q]
      BY <2>5, <3>1 DEF HandlersInv, HandlerType, RequestType
    <3> HIDE DEF q
    <3>4. Knows(devices', q)
      BY <3>2 DEF Knows
    <3>5. errors' \in Nat
      BY <1>n, <2>5
    <3> QED  BY <2>2, <2>3, <2>4, <3>2, <3>3, <3>4, <3>5, OneRequest
  <2>6. CASE Errs /\ req' = [req EXCEPT ![h] = Idle]
    BY <1>r, <2>2, <2>3, <2>4, <2>6, IdleKnows, OneRequest
  <2> QED  BY <2>1, <2>5, <2>6
<1>2. CASE ReadBack(h) \/ DeleteDevice(h)
  BY <1>2, <1>e DEF ReadBack, DeleteDevice, Answer, Says, requestSame
<1>4. CASE FindCreds(h)
  <2>1. req[h].on \in Replica
    BY <1>4, <1>o, Standing DEF FindCreds
  <2>2. CASE NoError /\ Goes(h, "cached") /\ n \in creds[req[h].on]
    BY <1>4, <1>k, <1>n, <2>1, <2>2, GoesOnAlone DEF FindCreds, At, requestSame
  <2>3. CASE NoError /\ Goes(h, "found") /\ n \in devices
    BY <1>4, <1>n, <2>3, GoesOnAlone DEF FindCreds, At, requestSame
  <2> QED  BY <1>4, <1>e, <2>2, <2>3 DEF FindCreds, Answer, Says, requestSame
<1>5. CASE CacheCreds(h)
  <2>1. req[h].on \in Replica /\ n \in devices
    BY <1>5, <1>o, Standing DEF CacheCreds
  <2>2. /\ creds' = [creds EXCEPT ![req[h].on] = @ \cup {n}] /\ NoError /\ Goes(h, "cached")
        /\ UNCHANGED <<svc, devices, generated, keys, isUser>>
    BY <1>5 DEF CacheCreds, requestSame
  <2>3. RegistryInv'
    BY <2>1, <2>2, CacheTakes
  <2> QED  BY <1>n, <2>1, <2>2, <2>3, GoesOn DEF At
<1>6. CASE DescribeDevice(h)
  BY <1>6, <1>e DEF DescribeDevice, Answer, Says, requestSame
<1>7. CASE FindKey(h)
  <2>1. req[h].on \in Replica
    BY <1>7, <1>o, Standing DEF FindKey
  <2>2. CASE NoError /\ Goes(h, "keyed") /\ n \in keys[req[h].on]
    BY <1>7, <1>k, <1>n, <2>1, <2>2, GoesOnAlone DEF FindKey, At, requestSame
  <2>3. CASE NoError /\ Goes(h, "found") /\ n \in devices
    BY <1>7, <1>n, <2>3, GoesOnAlone DEF FindKey, At, requestSame
  <2> QED  BY <1>7, <1>e, <2>2, <2>3 DEF FindKey, Answer, Says, requestSame, Refuse
<1>8. CASE CacheKey(h)
  <2>1. req[h].on \in Replica /\ n \in devices
    BY <1>8, <1>o, Standing DEF CacheKey
  <2>2. /\ keys' = [keys EXCEPT ![req[h].on] = @ \cup {n}] /\ NoError /\ Goes(h, "keyed")
        /\ UNCHANGED <<svc, devices, generated, creds, isUser>>
    BY <1>8 DEF CacheKey, requestSame
  <2>3. RegistryInv'
    BY <2>1, <2>2, CacheTakes
  <2> QED  BY <1>n, <2>1, <2>2, <2>3, GoesOn DEF At
<1>9. CASE \E tag \in Tag, body \in Body : Post(h, tag, body)
  BY <1>9, <1>e DEF Post, Says
<1>18. CASE RefuseToken(h)
  BY <1>18, <1>e DEF RefuseToken, Answer, Says, requestSame
<1>10. CASE FindUser(h)
  <2>2. CASE NoError /\ Goes(h, "user") /\ n \in User
    BY <1>10, <1>n, <2>2, GoesOnAlone DEF FindUser, At, Stands, requestSame
  <2>3. CASE NoError /\ Goes(h, "device") /\ n \notin User
    BY <1>10, <1>n, <2>3, GoesOnAlone DEF FindUser, At, Stands, requestSame
  <2>4. CASE Errs /\ Goes(h, "device")
    BY <1>10, <1>r, <2>4, GoesOnAlone DEF FindUser, At, Stands, requestSame
  <2> QED  BY <1>10, <2>2, <2>3, <2>4 DEF FindUser
<1>11. CASE AdmitUser(h) \/ AdmitDevice(h)
  BY <1>11, <1>e DEF AdmitUser, AdmitDevice, Answer, Says, requestSame
<1>13. CASE LookUpName(h)
  <2>1. req[h].on \in Replica /\ n \in Name
    <3>1. Stands(h, "topic", "begun") /\ Knows(devices, req[h])
      BY <1>13 DEF LookUpName, HandlersInv
    <3> QED  BY <3>1 DEF Stands, Knows
  <2>2. CASE NoError /\ Remember(h, n \in User) /\ Goes(h, "known")
    <3>1. UNCHANGED <<svc, devices, generated, keys, creds>>
      BY <1>13 DEF LookUpName, requestSame
    <3>2. RegistryInv'
      BY <2>1, <2>2, <3>1, NameIsRemembered
    <3> QED  BY <1>n, <2>2, <3>1, <3>2, GoesOn DEF At
  <2> QED  BY <1>13, <1>e, <2>2 DEF LookUpName, Says, requestSame, registry, caches
<1>14. CASE AdmitTopic(h)
  BY <1>14, <1>e DEF AdmitTopic, Answer, Says, requestSame
<1>15. CASE ValidateLogin(h)
  <2>2. CASE NoError /\ Goes(h, "valid") /\ n \in User /\ req[h].ok
    BY <1>15, <1>n, <2>2, GoesOnAlone DEF ValidateLogin, At, Stands, requestSame
  <2> QED  BY <1>15, <1>e, <2>2 DEF ValidateLogin, Answer, Says, requestSame
<1>16. CASE GenerateJWT(h) \/ DeleteUser(h)
  BY <1>16, <1>e DEF GenerateJWT, DeleteUser, Answer, Says, requestSame
<1> QED
  BY <1>1, <1>2, <1>4, <1>5, <1>6, <1>7, <1>8, <1>9, <1>10, <1>11, <1>13, <1>14, <1>15, <1>16, <1>18
     DEF Serve

\* The invariant when only where a replica's service stands changes.
LEMMA ServiceMoves ==
    ASSUME HandlersInv, NEW r \in Replica, NEW to \in {"up", "draining", "closing"},
           svc' = [svc EXCEPT ![r] = to], UNCHANGED <<registry, req, errors>>
    PROVE  HandlersInv'
<1>1. RegistryInv' /\ devices' = devices
  BY RegistryStays DEF HandlersInv, registry
<1>2. HandlerType'
  BY DEF HandlersInv, HandlerType
<1> QED  BY <1>1, <1>2 DEF HandlersInv

\* A process that ends, for whatever reason, starts with empty caches and no
\* request.
LEMMA ExitKeeps ==
    ASSUME HandlersInv, NEW r \in Replica, Exit(r)
    PROVE  HandlersInv'
<1>1. /\ keys' = [keys EXCEPT ![r] = {}] /\ creds' = [creds EXCEPT ![r] = {}]
      /\ isUser' = [isUser EXCEPT ![r] = {}] /\ svc' = [svc EXCEPT ![r] = "up"]
      /\ UNCHANGED <<devices, generated, errors>>
      /\ req' = [h \in Handler |-> IF req[h].on = r THEN Idle ELSE req[h]]
  BY DEF Exit
<1>2. RegistryInv'
  BY <1>1 DEF HandlersInv, RegistryInv
<1>3. HandlerType'
  BY <1>1, IdleKnows DEF HandlersInv, HandlerType
<1>4. \A h \in Handler : Knows(devices', req'[h])
  BY <1>1, IdleKnows DEF HandlersInv
<1> QED  BY <1>2, <1>3, <1>4 DEF HandlersInv

\* A new request keeps the invariant: it begins with no look-up done.
LEMMA RequestKeeps ==
    ASSUME HandlersInv, NEW h \in Handler, NEW r \in Replica,
           NEW op \in Op, NEW n \in Name \cup {""}, NEW ok \in BOOLEAN,
           Request(h, r, op, n, ok), op = "topic" => n \in Name
    PROVE  HandlersInv'
<1> DEFINE q == [on |-> r, op |-> op, name |-> n, ok |-> ok, at |-> "begun", err |-> FALSE]
<1>1. q \in RequestType /\ Knows(devices, q)
  BY DEF RequestType, At, Knows
<1>2. req' = [req EXCEPT ![h] = q] /\ UNCHANGED <<registry, svc, errors>>
  BY DEF Request, faults
<1> HIDE DEF q
<1>3. RegistryInv' /\ devices' = devices /\ errors' \in Nat
  BY <1>2, RegistryStays DEF HandlersInv, HandlerType, registry
<1> QED  BY <1>1, <1>2, <1>3, OneRequest

\* The relay touches neither handlers nor caches.
LEMMA RelayKeeps ==
    ASSUME HandlersInv, NEW r \in Replica, Relay(r)
    PROVE  HandlersInv'
BY Stays DEF Relay, Dequeue, Publish, PublishFails, Ack, relaySame, serving, faults, handlers

\* A request that arrives names a device or a user, or nothing.
LEMMA ArrivesRequests ==
    ASSUME NEW h \in Handler, NEW r \in Replica, Arrives(h, r)
    PROVE  \E op \in Op, n \in Name \cup {""}, ok \in BOOLEAN :
                Request(h, r, op, n, ok) /\ (op = "topic" => n \in Name)
BY DEF Arrives, Op, Name

\* Every step keeps the invariant.
LEMMA HandlersStep == HandlersInv /\ [Next]_vars => HandlersInv'
<1> SUFFICES ASSUME HandlersInv, [Next]_vars  PROVE HandlersInv'
  OBVIOUS
<1>1. CASE UNCHANGED vars
  BY <1>1, Stays DEF vars, serving, faults, handlers
<1>2. ASSUME NEW h \in Handler, NEW r \in Replica, Arrives(h, r)  PROVE HandlersInv'
  BY <1>2, ArrivesRequests, RequestKeeps
<1>3. ASSUME NEW h \in Handler, Serve(h)  PROVE HandlersInv'
  BY <1>3, ServeKeeps
<1>4. ASSUME NEW r \in Replica, Relay(r)  PROVE HandlersInv'
  BY <1>4, RelayKeeps
<1>5. ASSUME NEW r \in Replica, Sigterm(r)  PROVE HandlersInv'
  BY <1>5, ServiceMoves DEF Sigterm
<1>6. ASSUME NEW r \in Replica, Drained(r)  PROVE HandlersInv'
  BY <1>6, ServiceMoves DEF Drained, faults
<1>7. ASSUME NEW r \in Replica, ShutdownFails(r) \/ Closed(r) \/ Crash(r)  PROVE HandlersInv'
  BY <1>7, ExitKeeps DEF ShutdownFails, Closed, Crash
<1> QED  BY <1>1, <1>2, <1>3, <1>4, <1>5, <1>6, <1>7 DEF Next

\* What a handler has found out by where it stands is so, and the caches agree
\* with the collections.
THEOREM HandlersInvHolds == Spec => []HandlersInv
<1>1. HandlersInv /\ [Next]_vars => HandlersInv'
  BY HandlersStep
<1> QED  BY HandlersStart, <1>1, PTL DEF Spec

\* For any replicas, handlers, devices, users and bounds, and whatever ends a
\* process: the caches of db.go and mqttauth.go never disagree with the
\* collections.
THEOREM CachesAgree == Spec => []CachedIsRegistered
BY HandlersInvHolds, HandlersAgree, PTL

\* A handler that goes on is not idle: it has not answered.
LEMMA GoesIsNotIdle ==
    ASSUME HandlersInv, NEW h \in Handler, NEW at \in At \ {"idle"}, Goes(h, at)
    PROVE  req'[h] # Idle
<1>1. req'[h].at = at
  BY DEF Goes, HandlersInv, HandlerType, RequestType
<1>2. Idle.at = "idle" /\ at # "idle"
  BY DEF Idle
<1> QED  BY <1>1, <1>2

\* A handler that answers is idle afterwards, and the answer is what it said.
LEMMA SaysIsHeard ==
    ASSUME NEW h \in Handler, NEW status, NEW says, Says(h, status, says)
    PROVE  answer'.says = says
BY DEF Says

\* The answer of a step that ends a request of the broker or of a login.
LEMMA AnswersStep ==
    ASSUME HandlersInv, NEW h \in Handler, Answered(h)
    PROVE  answer'.says = Entitled(req[h]) \/ req[h].err \/ errors' # errors
<1> DEFINE q == req[h]
           Right == answer'.says = Entitled(q) \/ q.err \/ errors' # errors
<1>0. /\ q.op \in {"connect", "topic", "login", "post"} /\ req'[h] = Idle /\ Serve(h)
      /\ q \in RequestType /\ Knows(devices, q)
  BY DEF Answered, HandlersInv, HandlerType
<1>1. /\ q.op \in {"connect", "topic", "login", "post"} /\ req'[h] = Idle /\ Serve(h)
      /\ q \in RequestType /\ Knows(devices, q) /\ q.on \in Replica
      /\ devices \subseteq Device /\ (q.at \in {"found", "cached", "keyed"} => q.name \in devices)
      /\ keys[q.on] \subseteq devices /\ \A e \in isUser[q.on] : e[2] = (e[1] \in User)
  BY <1>0 DEF Knows, HandlersInv, RegistryInv
<1>2. Errs => Right
  BY DEF Errs, HandlersInv, HandlerType
<1>3. \A at \in At \ {"idle"} : ~Goes(h, at)
  BY <1>1, GoesIsNotIdle
<1>4. \A status, says : Says(h, status, says) => answer'.says = says
  BY SaysIsHeard
<1>5. User \cap Device = {}
  BY BackendAssumption
<1> SUFFICES Right
  OBVIOUS
<1>6. CASE FindKey(h)
  <2>1. CASE q.op = "post" /\ q.name \notin devices /\ Refuse(h)
    <3>1. answer'.says = ""
      BY <1>4, <2>1 DEF Refuse, Answer
    <3> QED  BY <2>1, <3>1 DEF Entitled
  <2>2. CASE q.op = "connect" /\ q.at = "device" /\ q.name \notin devices /\ Refuse(h)
    <3>1. answer'.says = "deny"
      BY <1>4, <2>2 DEF Refuse
    <3>2. q.err \/ Entitled(q) = "deny"
      BY <1>1, <2>2 DEF Entitled, Knows
    <3> QED  BY <3>1, <3>2
  <2>3. \/ q.op = "post"
        \/ q.op = "connect" /\ q.at = "device"
    BY <1>6 DEF FindKey, Stands
  <2> QED  BY <1>2, <1>3, <1>6, <2>1, <2>2, <2>3 DEF FindKey, At
<1>7. CASE AdmitUser(h)
  <2>1. q.op = "connect" /\ q.at = "user" /\ q.name \in User
    BY <1>1, <1>7 DEF AdmitUser, Stands, Knows
  <2>2. CASE Says(h, 200, IF q.ok THEN "allow administrator" ELSE "deny")
    BY <1>4, <2>1, <2>2 DEF Entitled
  <2> QED  BY <1>2, <1>7, <2>2 DEF AdmitUser
<1>8. CASE AdmitDevice(h)
  <2>1. q.op = "connect" /\ q.name \in devices /\ q.name \notin User
    BY <1>1, <1>5, <1>8 DEF AdmitDevice, Stands
  <2>2. Says(h, 200, IF q.ok THEN "allow" ELSE "deny")
    BY <1>8 DEF AdmitDevice
  <2> QED  BY <1>4, <2>1, <2>2 DEF Entitled
<1>9. CASE LookUpName(h)
  <2>1. CASE NoError /\ Goes(h, "known")
    BY <1>3, <2>1 DEF At
  <2> QED  BY <1>2, <1>9, <2>1 DEF LookUpName
<1>10. CASE AdmitTopic(h)
  <2>1. PICK e \in isUser[q.on] : e[1] = q.name /\ Says(h, 200, IF e[2] \/ q.ok THEN "allow" ELSE "deny")
    BY <1>10 DEF AdmitTopic
  <2>2. q.op = "topic" /\ e[2] = (q.name \in User)
    BY <1>1, <1>10, <2>1 DEF AdmitTopic
  <2>3. Entitled(q) = IF q.name \in User \/ q.ok THEN "allow" ELSE "deny"
    BY <2>2 DEF Entitled
  <2> QED  BY <1>4, <2>1, <2>2, <2>3
<1>11. CASE ValidateLogin(h)
  <2> DEFINE right == q.name \in User /\ q.ok
  <2>1. q.op = "login"
    BY <1>11 DEF ValidateLogin, Stands
  <2>2. CASE ~right /\ Says(h, 401, "")
    BY <1>4, <2>1, <2>2 DEF Entitled
  <2> QED  BY <1>2, <1>3, <1>11, <2>2 DEF ValidateLogin, Answer, At
<1>12. CASE GenerateJWT(h)
  <2>1. q.op = "login" /\ q.name \in User /\ q.ok
    BY <1>1, <1>12 DEF GenerateJWT, Stands, Knows
  <2>2. CASE Says(h, 200, "admin")
    BY <1>4, <2>1, <2>2 DEF Entitled
  <2> QED  BY <1>2, <1>12, <2>2 DEF GenerateJWT
<1>13. CASE FindUser(h)
  BY <1>3, <1>13 DEF FindUser, At
<1>14. CASE CacheKey(h)
  BY <1>3, <1>14 DEF CacheKey, At
<1>15. CASE \/ InsertOne(h) \/ ReadBack(h) \/ DeleteDevice(h) \/ FindCreds(h) \/ CacheCreds(h)
            \/ DescribeDevice(h) \/ DeleteUser(h)
  BY <1>1, <1>15 DEF InsertOne, ReadBack, DeleteDevice, FindCreds, CacheCreds, DescribeDevice,
     DeleteUser, Stands
<1>16. CASE \E tag \in Tag, body \in Body : Post(h, tag, body)
  <2>1. q.op = "post" /\ q.name \in devices /\ q.ok /\ Says(h, 200, "ok!")
    BY <1>1, <1>16 DEF Post, Stands
  <2> QED  BY <1>4, <2>1 DEF Entitled
<1>17. CASE RefuseToken(h)
  <2>1. q.op = "post" /\ ~q.ok /\ Says(h, 401, "")
    BY <1>17 DEF RefuseToken, Stands, Answer
  <2> QED  BY <1>4, <2>1 DEF Entitled
<1> QED
  BY <1>1, <1>6, <1>7, <1>8, <1>9, <1>10, <1>11, <1>12, <1>13, <1>14, <1>15, <1>16, <1>17 DEF Serve

\* For any replicas, handlers, devices, users and bounds: UserAuth, TopicAuth,
\* MqttAuth and HandleLogin answer what the collections ask for, whatever the
\* other handlers do in the meantime, except to a request that met an error of
\* MongoDB.
THEOREM AnswersAreRight == Spec => AnsweredAsRegistered
<1>1. HandlersInv /\ [Next]_vars =>
        [\A h \in Handler : Answered(h) =>
            \/ answer'.says = Entitled(req[h])
            \/ req[h].err \/ errors' # errors]_vars
  BY AnswersStep
<1> QED  BY HandlersInvHolds, <1>1, PTL DEF Spec, AnsweredAsRegistered

------------------------------------------------------------------------------
(* The relay *)

PostType == [dev : Device, tag : Tag, body : Body, at : Replica]
MessageType == [post : Nat, dev : STRING, tag : STRING, body : Seq(STRING)]

\* Posts, queues and the relays have their types.
RelayType ==
    /\ posts \in Seq(PostType)
    /\ queue \in [Replica -> Seq(1 .. Len(posts))]
    /\ hold \in [Replica -> 0 .. Len(posts)]
    /\ pc \in [Replica -> {"loop", "publish", "ack", "retry"}]
    /\ \A r \in Replica : (pc[r] = "loop") = (hold[r] = None)
    /\ relayed \in Seq(MessageType) /\ \A i \in DOMAIN relayed : relayed[i].post \in 1 .. Len(posts)

Status == {200, 201, 204, 401, 404, 500}
Saying == {"", "deny", "allow", "allow administrator", "admin", "ok!"}
AnswerType == [status : Status, says : Saying]

\* The answer, and the counts that bound a run, have theirs.
CountType ==
    /\ answer \in AnswerType
    /\ requests \in 0 .. MaxRequests
    /\ wiped \subseteq Replica
    /\ crashes \in Nat /\ stops \in Nat /\ crashes + stops <= MaxEnds
    /\ errors \in Nat /\ lostAcks \in Nat /\ errors + lostAcks <= MaxFailures

\* A handler either posts or leaves all that the relay uses alone.
LEMMA ServePostsOrNot ==
    ASSUME NEW h \in Handler, Serve(h)
    PROVE  \/ \E tag \in Tag, body \in Body : Post(h, tag, body)
           \/ UNCHANGED <<svc, requests, posts, relay, relayed>> /\ (NoError \/ Errs)
<1> USE DEF requestSame
<1>1. CASE InsertOne(h)
  BY <1>1 DEF InsertOne
<1>5. CASE ReadBack(h) \/ DeleteDevice(h) \/ RefuseToken(h)
  BY <1>5 DEF ReadBack, DeleteDevice, RefuseToken
<1>6. CASE FindCreds(h) \/ CacheCreds(h)
  BY <1>6 DEF FindCreds, CacheCreds
<1>2. CASE DescribeDevice(h) \/ FindKey(h) \/ CacheKey(h) \/ FindUser(h) \/ AdmitUser(h)
  BY <1>2 DEF DescribeDevice, FindKey, CacheKey, FindUser, AdmitUser
<1>3. CASE AdmitDevice(h) \/ LookUpName(h) \/ AdmitTopic(h) \/ ValidateLogin(h)
  BY <1>3 DEF AdmitDevice, LookUpName, AdmitTopic, ValidateLogin
<1>4. CASE GenerateJWT(h) \/ DeleteUser(h)
  BY <1>4 DEF GenerateJWT, DeleteUser
<1> QED  BY <1>1, <1>2, <1>3, <1>4, <1>5, <1>6 DEF Serve

\* What a handler says is one of the answers that there are.
LEMMA AnswerHasType ==
    ASSUME HandlersInv, CountType, NEW h \in Handler, Serve(h)
    PROVE  answer' \in AnswerType
<1>1. NoAnswer \in AnswerType
  BY DEF NoAnswer, AnswerType, Status, Saying
<1>2. \A status \in Status, says \in Saying : Says(h, status, says) => answer' \in AnswerType
  BY DEF Says, AnswerType
<1>3. \A at : Goes(h, at) => answer' \in AnswerType
  BY <1>1 DEF Goes
<1>s. /\ 200 \in Status /\ 201 \in Status /\ 204 \in Status
      /\ 401 \in Status /\ 404 \in Status /\ 500 \in Status
      /\ "" \in Saying /\ "deny" \in Saying /\ "allow" \in Saying
      /\ "allow administrator" \in Saying /\ "admin" \in Saying /\ "ok!" \in Saying
  BY DEF Status, Saying
<1>5. CASE InsertOne(h)
  BY <1>s, <1>1, <1>2, <1>5 DEF InsertOne, Answer
<1>11. CASE ReadBack(h) \/ DeleteDevice(h)
  <2>1. Says(h, 201, "") \/ Says(h, 204, "") \/ Says(h, 500, "")
    BY <1>11 DEF ReadBack, DeleteDevice, Answer
  <2> QED  BY <1>s, <1>2, <2>1
<1>12. CASE FindCreds(h) \/ CacheCreds(h) \/ DescribeDevice(h)
  <2>1. Says(h, 200, "") \/ Says(h, 404, "") \/ Says(h, 500, "") \/ \E at : Goes(h, at)
    BY <1>12 DEF FindCreds, CacheCreds, DescribeDevice, Answer
  <2> QED  BY <1>s, <1>2, <1>3, <2>1
<1>6. CASE FindKey(h) \/ CacheKey(h) \/ RefuseToken(h)
  <2>1. Says(h, 401, "") \/ Says(h, 200, "deny") \/ \E at : Goes(h, at)
    BY <1>6 DEF FindKey, CacheKey, RefuseToken, Answer, Refuse
  <2> QED  BY <1>s, <1>2, <1>3, <2>1
<1>7. CASE (\E tag \in Tag, body \in Body : Post(h, tag, body)) \/ FindUser(h) \/ AdmitUser(h) \/ AdmitDevice(h)
  BY <1>s, <1>2, <1>3, <1>7 DEF Post, FindUser, AdmitUser, AdmitDevice, Answer
<1>8. CASE LookUpName(h)
  BY <1>s, <1>2, <1>3, <1>8 DEF LookUpName
<1>9. CASE AdmitTopic(h)
  <2>1. Says(h, 200, "deny") \/ Says(h, 200, "allow")
    BY <1>9 DEF AdmitTopic
  <2> QED  BY <1>s, <1>2, <2>1
<1>10. CASE ValidateLogin(h)
  <2>1. Says(h, 401, "") \/ \E at : Goes(h, at)
    BY <1>10 DEF ValidateLogin, Answer
  <2> QED  BY <1>s, <1>2, <1>3, <2>1
<1>13. CASE GenerateJWT(h) \/ DeleteUser(h)
  <2>1. Says(h, 200, "admin") \/ Says(h, 200, "") \/ Says(h, 204, "") \/ Says(h, 404, "")
    BY <1>13 DEF GenerateJWT, DeleteUser, Answer
  <2> QED  BY <1>s, <1>2, <2>1
<1> QED  BY <1>5, <1>6, <1>7, <1>8, <1>9, <1>10, <1>11, <1>12, <1>13 DEF Serve

\* Every step keeps the answer's type and the bounds.
LEMMA CountsStep == HandlersInv /\ CountType /\ [Next]_vars => CountType'
<1> SUFFICES ASSUME HandlersInv, CountType, [Next]_vars  PROVE CountType'
  OBVIOUS
<1> DEFINE Faults ==
        /\ wiped \subseteq Replica
        /\ crashes \in Nat /\ stops \in Nat /\ crashes + stops <= MaxEnds
        /\ errors \in Nat /\ lostAcks \in Nat /\ errors + lostAcks <= MaxFailures
<1>a. MaxRequests \in Nat /\ MaxEnds \in Nat /\ MaxFailures \in Nat
  BY BackendAssumption
<1>b. Faults /\ answer \in AnswerType /\ requests \in 0 .. MaxRequests
  BY DEF CountType
<1>c. Faults' /\ answer' \in AnswerType /\ requests' \in 0 .. MaxRequests => CountType'
  BY DEF CountType
<1>d. UNCHANGED faults => Faults'
  BY <1>b DEF faults
<1>1. CASE UNCHANGED vars
  BY <1>1, <1>b, <1>c, <1>d DEF vars, serving
<1>2. ASSUME NEW h \in Handler, NEW r \in Replica, Arrives(h, r)  PROVE CountType'
  <2>1. NoAnswer \in AnswerType
    BY DEF NoAnswer, AnswerType, Status, Saying
  <2>2. requests < MaxRequests /\ requests' = requests + 1 /\ answer' = NoAnswer /\ UNCHANGED faults
    BY <1>2, ArrivesRequests DEF Request
  <2>3. requests' \in 0 .. MaxRequests
    BY <1>a, <1>b, <2>2
  <2> QED  BY <1>c, <1>d, <2>1, <2>2, <2>3
<1>3. ASSUME NEW h \in Handler, Serve(h)  PROVE CountType'
  <2>1. NoError \/ Errs
    BY <1>3, ServePostsOrNot DEF Post
  <2>2. UNCHANGED requests
    BY <1>3, ServePostsOrNot DEF Post
  <2>3. Faults'
    <3>1. CASE NoError
      BY <1>d, <3>1 DEF NoError
    <3>2. CASE Errs
      BY <1>a, <1>b, <3>2 DEF Errs
    <3> QED  BY <2>1, <3>1, <3>2
  <2>4. answer' \in AnswerType
    BY <1>3, AnswerHasType
  <2> QED  BY <1>b, <1>c, <2>2, <2>3, <2>4
<1>4. ASSUME NEW r \in Replica, Relay(r)  PROVE CountType'
  <2>1. UNCHANGED <<answer, requests>>
    BY <1>4 DEF Relay, Dequeue, Publish, PublishFails, Ack, relaySame, serving
  <2>2. \/ UNCHANGED faults
        \/ /\ errors + lostAcks < MaxFailures /\ lostAcks' = lostAcks + 1
           /\ UNCHANGED <<wiped, crashes, stops, errors>>
    BY <1>4 DEF Relay, Dequeue, Publish, PublishFails, Ack
  <2>3. Faults'
    BY <1>a, <1>b, <1>d, <2>2
  <2> QED  BY <1>b, <1>c, <2>1, <2>3
<1>5. ASSUME NEW r \in Replica, Sigterm(r) \/ Drained(r)  PROVE CountType'
  <2>1. UNCHANGED <<answer, requests>>
    BY <1>5 DEF Sigterm, Drained
  <2>2. \/ UNCHANGED faults
        \/ crashes + stops < MaxEnds /\ stops' = stops + 1 /\ UNCHANGED <<wiped, crashes, errors, lostAcks>>
    BY <1>5 DEF Sigterm, Drained
  <2>3. Faults'
    BY <1>a, <1>b, <1>d, <2>2
  <2> QED  BY <1>b, <1>c, <2>1, <2>3
<1>6. ASSUME NEW r \in Replica, ShutdownFails(r) \/ Closed(r) \/ Crash(r)  PROVE CountType'
  <2>1. Exit(r) /\ (UNCHANGED crashes \/ (crashes + stops < MaxEnds /\ crashes' = crashes + 1))
    BY <1>6 DEF ShutdownFails, Closed, Crash
  <2>2. UNCHANGED <<answer, requests, stops, errors, lostAcks>> /\ (wiped' = wiped \cup {r} \/ wiped' = wiped)
    BY <2>1 DEF Exit
  <2>3. Faults'
    BY <1>a, <1>b, <2>1, <2>2
  <2> QED  BY <1>b, <1>c, <2>2, <2>3
<1> QED  BY <1>1, <1>2, <1>3, <1>4, <1>5, <1>6 DEF Next

\* A step that leaves the relay and its queues alone.
Quiet ==
    /\ UNCHANGED <<posts, relay, relayed, wiped, crashes, lostAcks>>
    /\ errors' \in {errors, errors + 1}
    /\ \/ UNCHANGED <<svc, stops>>
       \/ \E r \in Replica : Sigterm(r) \/ Drained(r)

\* A device posts: what EnqueueData could not store costs an error.
Posted(r) ==
    /\ \E d \in devices, tag \in Tag, body \in Body :
        posts' = Append(posts, [dev |-> d, tag |-> tag, body |-> body, at |-> r])
    /\ \/ queue' = [queue EXCEPT ![r] = Append(@, Len(posts) + 1)] /\ errors' = errors
       \/ queue' = queue /\ errors' = errors + 1
    /\ UNCHANGED <<hold, pc, relayed, svc, wiped, crashes, stops, lostAcks>>

\* A process ends, which a crash or an earlier SIGTERM pays for.
Ended(r) ==
    /\ Exit(r)
    /\ \/ crashes' = crashes + 1
       \/ crashes' = crashes /\ svc[r] # "up"

\* What a step is to the relay.
LEMMA RelaySteps ==
    ASSUME HandlersInv, [Next]_vars
    PROVE  \/ Quiet
           \/ \E r \in Replica :
                Posted(r) \/ Dequeue(r) \/ Publish(r) \/ PublishFails(r) \/ Ack(r) \/ Ended(r)
<1>0. errors \in Nat
  BY DEF HandlersInv, HandlerType
<1>1. CASE UNCHANGED vars
  BY <1>0, <1>1 DEF vars, Quiet, serving, faults
<1>2. ASSUME NEW h \in Handler, NEW r \in Replica, Arrives(h, r)  PROVE Quiet
  BY <1>0, <1>2, ArrivesRequests DEF Request, Quiet, faults
<1>3. ASSUME NEW h \in Handler, Serve(h)  PROVE Quiet \/ \E r \in Replica : Posted(r)
  <2>1. CASE \E tag \in Tag, body \in Body : Post(h, tag, body)
    <3>1. req[h].name \in devices /\ req[h].on \in Replica
      BY <2>1 DEF Post, Stands, HandlersInv, Knows
    <3>2. NoError => errors' = errors /\ UNCHANGED <<wiped, crashes, stops, lostAcks>>
      BY DEF NoError, faults
    <3>3. Errs => errors' = errors + 1 /\ UNCHANGED <<wiped, crashes, stops, lostAcks>>
      BY DEF Errs
    <3>4. Posted(req[h].on)
      BY <2>1, <3>1, <3>2, <3>3 DEF Post, Posted
    <3> QED  BY <3>1, <3>4
  <2>2. CASE UNCHANGED <<svc, requests, posts, relay, relayed>> /\ (NoError \/ Errs)
    BY <2>2 DEF Quiet, NoError, Errs, faults
  <2> QED  BY <1>3, <2>1, <2>2, ServePostsOrNot
<1>4. ASSUME NEW r \in Replica, Relay(r)
      PROVE  Dequeue(r) \/ Publish(r) \/ PublishFails(r) \/ Ack(r)
  BY <1>4 DEF Relay
<1>5. ASSUME NEW r \in Replica, Sigterm(r) \/ Drained(r)  PROVE Quiet
  BY <1>5 DEF Sigterm, Drained, Quiet, faults
<1>6. ASSUME NEW r \in Replica, ShutdownFails(r) \/ Closed(r) \/ Crash(r)  PROVE Ended(r)
  BY <1>6 DEF ShutdownFails, Closed, Crash, Ended
<1> QED  BY <1>1, <1>2, <1>3, <1>4, <1>5, <1>6 DEF Next

\* What stands where in a row made of a device, the parts of a tag and those of
\* a payload.
LEMMA RowParts ==
    ASSUME NEW S, NEW d \in S, NEW t \in Seq(S), t # <<>>, NEW b \in Seq(S)
    PROVE  LET row == <<d>> \o t \o b
               rest == SubSeq(row, 3, Len(row))
           IN  /\ row[1] = d /\ row[2] = t[1] /\ row[2] \in S /\ rest \in Seq(S)
               /\ Len(t) = 1 => rest = b /\ <<row[2]>> = t
<1> DEFINE u == <<d>> \o t
           row == u \o b
           rest == SubSeq(row, 3, Len(row))
<1>1. <<d>> \in Seq(S) /\ Len(<<d>>) = 1 /\ <<d>>[1] = d /\ Len(t) >= 1 /\ t[1] \in S
  OBVIOUS
<1>2. /\ u \in Seq(S) /\ Len(u) = 1 + Len(t)
      /\ u[1] = d /\ u[2] = t[1]
  BY <1>1
<1> HIDE DEF u
<1>3. /\ row \in Seq(S) /\ Len(row) = Len(u) + Len(b)
      /\ \A i \in 1 .. Len(u) : row[i] = u[i]
      /\ \A i \in 1 .. Len(b) : row[Len(u) + i] = b[i]
  BY <1>2
<1> HIDE DEF row
<1>4. /\ rest \in Seq(S) /\ Len(rest) = Len(row) - 2
      /\ \A i \in 1 .. Len(rest) : rest[i] = row[i + 2]
  BY <1>1, <1>2, <1>3
<1> HIDE DEF rest
<1>5. ASSUME Len(t) = 1  PROVE rest = b
  <2>1. Len(u) = 2 /\ Len(rest) = Len(b)
    BY <1>2, <1>3, <1>4, <1>5
  <2>2. \A i \in 1 .. Len(b) : rest[i] = b[i]
    BY <1>3, <1>4, <2>1
  <2> QED  BY <1>4, <2>1, <2>2
<1>6. row[1] = d /\ row[2] = t[1]
  BY <1>1, <1>2, <1>3
<1>7. Len(t) = 1 => <<row[2]>> = t
  BY <1>6
<1> QED  BY <1>1, <1>4, <1>5, <1>6, <1>7 DEF u, row, rest

\* What the relay makes of a row (mqtt.go:59-75): the device that posted, the
\* first part of its tag, and the rest.
LEMMA MessageOfPost ==
    ASSUME posts \in Seq(PostType), NEW m \in 1 .. Len(posts)
    PROVE  /\ Message(m) \in MessageType
           /\ Message(m).post = m /\ Message(m).dev = posts[m].dev
           /\ Len(posts[m].tag) = 1 =>
                <<Message(m).tag>> = posts[m].tag /\ Message(m).body = posts[m].body
<1> DEFINE d == posts[m].dev
           t == posts[m].tag
           b == posts[m].body
<1>1. d \in STRING /\ t \in Seq(STRING) /\ t # <<>> /\ b \in Seq(STRING)
  <2>1. posts[m] \in PostType
    OBVIOUS
  <2>2. d \in Device /\ t \in Tag /\ b \in Body
    BY <2>1 DEF PostType
  <2> HIDE DEF d, t, b
  <2>3. Device \subseteq STRING /\ Tag \subseteq Seq(STRING) \ {<<>>} /\ Body \subseteq Seq(STRING)
    BY BackendAssumption
  <2> QED  BY <2>2, <2>3
<1> DEFINE rest == SubSeq(Row(m), 3, Len(Row(m)))
<1>2. Row(m) = <<d>> \o t \o b
  BY DEF Row
<1> HIDE DEF d, t, b
<1>3. /\ Row(m)[1] = d /\ Row(m)[2] \in STRING /\ rest \in Seq(STRING)
      /\ Len(t) = 1 => rest = b /\ <<Row(m)[2]>> = t
  <2> DEFINE S == STRING
  <2>1. d \in S /\ t \in Seq(S) /\ t # <<>> /\ b \in Seq(S)
    BY <1>1
  <2> HIDE DEF S
  <2>2. /\ Row(m)[1] = d /\ Row(m)[2] \in S /\ rest \in Seq(S)
        /\ Len(t) = 1 => rest = b /\ <<Row(m)[2]>> = t
    BY <1>2, <2>1, RowParts
  <2> QED  BY <2>2 DEF S
<1>4. Message(m) = [post |-> m, dev |-> d, tag |-> Row(m)[2], body |-> rest]
  BY <1>3 DEF Message, rest
<1> HIDE DEF rest
<1>5. /\ Message(m) \in MessageType
      /\ Message(m).post = m /\ Message(m).dev = d
      /\ Len(t) = 1 => <<Message(m).tag>> = t /\ Message(m).body = b
  BY <1>1, <1>3, <1>4 DEF MessageType
<1> QED  BY <1>5 DEF d, t, b

\* Post m came to replica r.
Of(r, m) == m \in 1 .. Len(posts) /\ posts[m].at = r

\* A replica holds and queues its own posts in the order they came, after all
\* of its own that were delivered; a row is acknowledged when it was.
InTurn(r) ==
    /\ \A i \in 1 .. Len(queue[r]) : Of(r, queue[r][i])
    /\ \A i, j \in 1 .. Len(queue[r]) : i < j => queue[r][i] < queue[r][j]
    /\ hold[r] # None =>
        Of(r, hold[r]) /\ \A i \in 1 .. Len(queue[r]) : hold[r] < queue[r][i]
    /\ \A m \in Delivered : Of(r, m) =>
        /\ hold[r] # None => m <= hold[r]
        /\ \A i \in 1 .. Len(queue[r]) : m < queue[r][i]
    /\ pc[r] = "ack" => hold[r] \in Delivered

InOrder ==
    \A i, j \in DOMAIN relayed :
        i < j /\ posts[relayed[i].post].at = posts[relayed[j].post].at =>
            relayed[i].post <= relayed[j].post

\* The inductive invariant of what is queued and relayed.
SentInv ==
    /\ RelayType
    /\ \A m \in 1 .. Len(posts) : posts[m].dev \in generated
    /\ RelayedAsPosted
    /\ \A r \in Replica : InTurn(r)
    /\ InOrder

\* A step that leaves posts, queues and relays alone keeps it.
LEMMA SentStays ==
    SentInv /\ UNCHANGED <<posts, relay, relayed>> /\ generated \subseteq generated' => SentInv'
<1> SUFFICES ASSUME SentInv, UNCHANGED <<posts, queue, hold, pc, relayed>>, generated \subseteq generated'
             PROVE  SentInv'
  BY DEF relay
<1>1. RelayType'
  BY DEF SentInv, RelayType
<1>2. (\A m \in 1 .. Len(posts) : posts[m].dev \in generated)'
  BY DEF SentInv
<1>3. RelayedAsPosted'
  BY DEF SentInv, RelayedAsPosted
<1>4. Delivered' = Delivered /\ \A r, m : Of(r, m)' = Of(r, m)
  BY DEF Delivered, Of
<1>5. \A r \in Replica : InTurn(r)'
  BY <1>4 DEF SentInv, InTurn
<1>6. InOrder'
  BY DEF SentInv, InOrder
<1> QED  BY <1>1, <1>2, <1>3, <1>5, <1>6 DEF SentInv

\* What is posted goes to the end of the replica's queue, or nowhere.
LEMMA PostedKeeps ==
    ASSUME HandlersInv, HandlersInv', SentInv, NEW r \in Replica, Posted(r), generated \subseteq generated'
    PROVE  SentInv'
<1>n. PICK n \in Nat : n = Len(posts) + 1
  BY DEF SentInv, RelayType
<1> DEFINE OfNew(s, m) == m \in 1 .. Len(posts') /\ posts'[m].at = s
<1>0. posts \in Seq(PostType) /\ Len(posts) \in Nat
  BY DEF SentInv, RelayType
<1>1. PICK p \in PostType : posts' = Append(posts, p) /\ p.dev \in generated' /\ p.at = r
  <2>1. PICK d \in devices, tag \in Tag, body \in Body :
            posts' = Append(posts, [dev |-> d, tag |-> tag, body |-> body, at |-> r])
    BY DEF Posted
  <2>2. d \in Device /\ d \in generated'
    BY DEF HandlersInv, RegistryInv
  <2> DEFINE p == [dev |-> d, tag |-> tag, body |-> body, at |-> r]
  <2>3. p \in PostType /\ p.dev = d /\ p.at = r
    BY <2>2 DEF PostType
  <2> QED  BY <2>1, <2>2, <2>3
<1>2. /\ posts' \in Seq(PostType) /\ Len(posts') = n /\ posts'[n] = p
      /\ \A m \in 1 .. Len(posts) : posts'[m] = posts[m]
  BY <1>0, <1>1, <1>n
<1>3. UNCHANGED <<hold, pc, relayed>>
  BY DEF Posted
<1>4. \A m \in 1 .. Len(posts) : m \in 1 .. Len(posts') /\ m < n /\ m # None
  BY <1>0, <1>2, <1>n DEF None
<1>5. \A s \in Replica : queue[s] \in Seq(1 .. Len(posts)) /\ Len(queue[s]) \in Nat
  BY DEF SentInv, RelayType
<1>6. \A s \in Replica : queue[s] \in Seq(1 .. Len(posts'))
  <2> DEFINE Old == 1 .. Len(posts)
             New == 1 .. Len(posts')
  <2>1. Old \subseteq New /\ \A s \in Replica : queue[s] \in Seq(Old)
    BY <1>4, <1>5
  <2> HIDE DEF Old, New
  <2>2. \A q \in Seq(Old) : q \in Seq(New)
    BY <2>1
  <2>3. \A s \in Replica : queue[s] \in Seq(New)
    BY <2>1, <2>2
  <2> QED  BY <2>3 DEF New
<1>7. \/ queue' = queue
      \/ queue' = [queue EXCEPT ![r] = Append(queue[r], n)]
  BY <1>n DEF Posted
<1>8. \A s \in Replica : queue'[s] = queue[s] \/ (s = r /\ queue'[s] = Append(queue[s], n))
  BY <1>7 DEF SentInv, RelayType
<1>9. n \in 1 .. Len(posts')
  BY <1>0, <1>2, <1>n
<1>10. RelayType'
  <2>1. queue' \in [Replica -> Seq(1 .. Len(posts'))]
    <3>1. queue \in [Replica -> Seq(1 .. Len(posts'))]
      BY <1>6 DEF SentInv, RelayType
    <3>2. Append(queue[r], n) \in Seq(1 .. Len(posts'))
      BY <1>6, <1>9
    <3> QED  BY <1>7, <3>1, <3>2
  <2>2. hold' \in [Replica -> 0 .. Len(posts')]
    BY <1>0, <1>2, <1>3, <1>n DEF SentInv, RelayType
  <2> QED  BY <1>2, <1>3, <1>4, <2>1, <2>2 DEF SentInv, RelayType
<1>11. \A m \in 1 .. Len(posts') : posts'[m].dev \in generated'
  BY <1>0, <1>1, <1>2 DEF SentInv
<1>12. \A i \in DOMAIN relayed : relayed[i].post \in 1 .. Len(posts)
  BY DEF SentInv, RelayType
<1>13. RelayedAsPosted'
  <2>1. \A i \in DOMAIN relayed : posts'[relayed[i].post] = posts[relayed[i].post]
    BY <1>2, <1>12
  <2> QED  BY <1>3, <2>1 DEF SentInv, RelayedAsPosted
<1>14. Delivered' = Delivered /\ Delivered \subseteq 1 .. Len(posts)
  BY <1>3, <1>12 DEF Delivered
<1>15. \A s \in Replica, m \in 1 .. Len(posts) : OfNew(s, m) = Of(s, m)
  BY <1>2, <1>4 DEF Of
<1>16. \A s \in Replica : hold[s] # None => hold[s] \in 1 .. Len(posts)
  BY <1>0 DEF SentInv, RelayType, None
<1> HIDE DEF OfNew
<1>17. ASSUME NEW s \in Replica  PROVE InTurn(s)'
  <2>1. InTurn(s)
    BY DEF SentInv
  <2>2. CASE queue'[s] = queue[s]
    <3>1. \A i \in 1 .. Len(queue[s]) : queue[s][i] \in 1 .. Len(posts)
      BY <1>5
    <3> QED  BY <1>3, <1>14, <1>15, <1>16, <2>1, <2>2, <3>1 DEF InTurn, Of, OfNew
  <2>3. CASE s = r /\ queue'[s] = Append(queue[s], n)
    <3> DEFINE k == Len(queue[s])
    <3>1. /\ Len(queue'[s]) = k + 1 /\ queue'[s][k + 1] = n
          /\ \A i \in 1 .. k : queue'[s][i] = queue[s][i] /\ queue[s][i] \in 1 .. Len(posts)
      BY <1>5, <2>3
    <3>2. \A i \in 1 .. Len(queue'[s]) : i = k + 1 \/ i \in 1 .. k
      BY <1>5, <3>1
    <3>3. OfNew(s, n)
      BY <1>1, <1>2, <1>9, <2>3 DEF OfNew
    <3>4. \A i \in 1 .. Len(queue'[s]) : OfNew(s, queue'[s][i])
      BY <1>15, <2>1, <3>1, <3>2, <3>3 DEF InTurn
    <3>5. \A i, j \in 1 .. Len(queue'[s]) : i < j => queue'[s][i] < queue'[s][j]
      <4> TAKE i, j \in 1 .. Len(queue'[s])
      <4>1. CASE j = k + 1 /\ i < j
        <5>1. i \in 1 .. k
          BY <1>5, <3>2, <4>1
        <5> QED  BY <1>4, <3>1, <4>1, <5>1
      <4>2. CASE j # k + 1 /\ i < j
        <5>1. j \in 1 .. k /\ i \in 1 .. k
          BY <1>5, <3>2, <4>2
        <5> QED  BY <2>1, <3>1, <4>2, <5>1 DEF InTurn
      <4> QED  BY <4>1, <4>2
    <3>6. hold[s] # None => OfNew(s, hold[s]) /\ \A i \in 1 .. Len(queue'[s]) : hold[s] < queue'[s][i]
      BY <1>4, <1>15, <1>16, <2>1, <3>1, <3>2 DEF InTurn
    <3>7. \A m \in Delivered : OfNew(s, m) =>
              /\ hold[s] # None => m <= hold[s]
              /\ \A i \in 1 .. Len(queue'[s]) : m < queue'[s][i]
      BY <1>4, <1>14, <1>15, <2>1, <3>1, <3>2 DEF InTurn
    <3>8. pc[s] = "ack" => hold[s] \in Delivered
      BY <2>1 DEF InTurn
    <3> QED  BY <1>3, <1>14, <3>4, <3>5, <3>6, <3>7, <3>8 DEF InTurn, Of, OfNew
  <2> QED  BY <1>8, <2>2, <2>3
<1>18. InOrder'
  <2>1. \A i \in DOMAIN relayed : posts'[relayed[i].post] = posts[relayed[i].post]
    BY <1>2, <1>12
  <2> QED  BY <1>3, <2>1 DEF SentInv, InOrder
<1> QED  BY <1>10, <1>11, <1>13, <1>17, <1>18 DEF SentInv

\* A step that touches only one replica's queue, row in hand and place, and
\* leaves that replica in turn.
LEMMA OneRelay ==
    ASSUME SentInv, NEW r \in Replica, UNCHANGED <<posts, relayed, generated>>,
           NEW q \in Seq(1 .. Len(posts)), NEW h \in 0 .. Len(posts),
           NEW to \in {"loop", "publish", "ack", "retry"}, (to = "loop") = (h = None),
           queue' = [queue EXCEPT ![r] = q], hold' = [hold EXCEPT ![r] = h],
           pc' = [pc EXCEPT ![r] = to],
           InTurn(r)'
    PROVE  SentInv'
<1>1. RelayType'
  BY DEF SentInv, RelayType
<1>2. /\ (\A m \in 1 .. Len(posts) : posts[m].dev \in generated)'
      /\ RelayedAsPosted' /\ InOrder'
  BY DEF SentInv, RelayedAsPosted, InOrder
<1>3. ASSUME NEW s \in Replica, s # r  PROVE InTurn(s)'
  <2>1. queue'[s] = queue[s] /\ hold'[s] = hold[s] /\ pc'[s] = pc[s] /\ InTurn(s)
    BY <1>3 DEF SentInv, RelayType
  <2>2. Delivered' = Delivered /\ \A m : Of(s, m)' = Of(s, m)
    BY DEF Delivered, Of
  <2> QED  BY <2>1, <2>2 DEF InTurn
<1> QED  BY <1>1, <1>2, <1>3 DEF SentInv

\* A queue with something in it is its head and its tail.
LEMMA HeadAndTail ==
    ASSUME NEW S, NEW q \in Seq(S), q # <<>>
    PROVE  /\ Head(q) = q[1] /\ Head(q) \in S /\ Tail(q) \in Seq(S)
           /\ Len(q) \in Nat \ {0} /\ Len(Tail(q)) = Len(q) - 1
           /\ \A i \in 1 .. Len(q) - 1 : Tail(q)[i] = q[i + 1]
OBVIOUS

\* The oldest row that waits comes into the relay's hands.
LEMMA DequeueKeeps ==
    ASSUME SentInv, NEW r \in Replica, Dequeue(r)
    PROVE  SentInv'
<1> DEFINE q == queue[r]
           k == Len(q)
<1>1. /\ q \in Seq(1 .. Len(posts)) /\ q # <<>> /\ pc[r] = "loop" /\ hold[r] = None
      /\ queue' = [queue EXCEPT ![r] = Tail(q)] /\ hold' = [hold EXCEPT ![r] = Head(q)]
      /\ pc' = [pc EXCEPT ![r] = "publish"]
      /\ UNCHANGED <<posts, relayed, generated>>
  BY DEF Dequeue, relaySame, registry, SentInv, RelayType
<1>2. /\ Head(q) = q[1] /\ Head(q) \in 1 .. Len(posts) /\ Tail(q) \in Seq(1 .. Len(posts))
      /\ k \in Nat \ {0} /\ Len(Tail(q)) = k - 1 /\ \A i \in 1 .. k - 1 : Tail(q)[i] = q[i + 1]
  BY <1>1, HeadAndTail
<1>3. Head(q) \in 0 .. Len(posts) /\ Head(q) # None
  BY <1>2 DEF None, SentInv, RelayType
<1>4. queue'[r] = Tail(q) /\ hold'[r] = Head(q) /\ pc'[r] = "publish"
  BY <1>1 DEF SentInv, RelayType
<1>5. Delivered' = Delivered /\ (\A m : Of(r, m)' = Of(r, m)) /\ InTurn(r)
  BY <1>1 DEF Delivered, Of, SentInv
<1>6. InTurn(r)'
  <2>1. \A i \in 1 .. k - 1 : i + 1 \in 1 .. k /\ 1 < i + 1
    BY <1>2
  <2>2. 1 \in 1 .. k
    BY <1>2
  <2>3. \A i \in 1 .. k - 1 : Of(r, Tail(q)[i]) /\ Head(q) < Tail(q)[i]
    BY <1>2, <1>5, <2>1, <2>2 DEF InTurn
  <2>4. \A i, j \in 1 .. k - 1 : i < j => Tail(q)[i] < Tail(q)[j]
    <3> TAKE i, j \in 1 .. k - 1
    <3>1. i < j => i + 1 < j + 1
      OBVIOUS
    <3> QED  BY <1>2, <1>5, <2>1, <3>1 DEF InTurn
  <2>5. Of(r, Head(q))
    BY <1>2, <1>5, <2>2 DEF InTurn
  <2>6. \A m \in Delivered : Of(r, m) => m <= Head(q) /\ \A i \in 1 .. k - 1 : m < Tail(q)[i]
    <3> TAKE m \in Delivered
    <3>1. Of(r, m) => m \in Nat /\ m < Head(q)
      BY <1>2, <1>5, <2>2 DEF InTurn, Of
    <3> QED  BY <1>2, <1>5, <2>1, <3>1 DEF InTurn
  <2> HIDE DEF q, k
  <2> QED  BY <1>2, <1>3, <1>4, <1>5, <2>3, <2>4, <2>5, <2>6 DEF InTurn
<1> QED  BY <1>1, <1>2, <1>3, <1>6, OneRelay

\* The relay lets its row go, having delivered it, or turns to a loop that it
\* never leaves.
LEMMA AckKeeps ==
    ASSUME SentInv, NEW r \in Replica, Ack(r) \/ PublishFails(r)
    PROVE  SentInv'
<1> DEFINE q == queue[r]
<1>1. /\ q \in Seq(1 .. Len(posts)) /\ queue' = queue /\ queue = [queue EXCEPT ![r] = q]
      /\ UNCHANGED <<posts, relayed, generated>>
      /\ hold[r] \in 0 .. Len(posts) /\ hold = [hold EXCEPT ![r] = hold[r]]
      /\ pc[r] \in {"publish", "ack"} /\ hold[r] # None
  BY DEF Ack, PublishFails, relaySame, registry, SentInv, RelayType
<1>2. Delivered' = Delivered /\ (\A m : Of(r, m)' = Of(r, m)) /\ InTurn(r)
  BY <1>1 DEF Delivered, Of, SentInv
<1>3. CASE Ack(r)
  <2>1. hold' = [hold EXCEPT ![r] = None] /\ pc' = [pc EXCEPT ![r] = "loop"]
    BY <1>3 DEF Ack
  <2>2. hold'[r] = None /\ pc'[r] = "loop" /\ None \in 0 .. Len(posts)
    BY <2>1 DEF SentInv, RelayType, None
  <2>3. InTurn(r)'
    BY <1>1, <1>2, <2>2 DEF InTurn
  <2> HIDE DEF q
  <2> QED  BY <1>1, <2>1, <2>2, <2>3, OneRelay
<1>4. CASE PublishFails(r)
  <2> DEFINE h == hold[r]
  <2>1. hold' = [hold EXCEPT ![r] = h] /\ pc' = [pc EXCEPT ![r] = "retry"]
    BY <1>1, <1>4 DEF PublishFails
  <2>2. hold'[r] = h /\ pc'[r] = "retry" /\ h \in 0 .. Len(posts) /\ h # None
    BY <1>1, <2>1 DEF SentInv, RelayType
  <2>3. InTurn(r)'
    BY <1>1, <1>2, <2>2 DEF InTurn
  <2> HIDE DEF q, h
  <2> QED  BY <1>1, <2>1, <2>2, <2>3, OneRelay
<1> QED  BY <1>3, <1>4

\* A process that ends keeps its queue or loses it, and loses the row in hand.
LEMMA EndedKeeps ==
    ASSUME SentInv, NEW r \in Replica, Exit(r)
    PROVE  SentInv'
<1>1. PICK q \in Seq(1 .. Len(posts)) :
        queue' = [queue EXCEPT ![r] = q] /\ (q = queue[r] \/ q = <<>>)
  <2>1. /\ queue[r] \in Seq(1 .. Len(posts)) /\ queue = [queue EXCEPT ![r] = queue[r]]
        /\ <<>> \in Seq(1 .. Len(posts))
    BY DEF SentInv, RelayType
  <2>2. queue' = [queue EXCEPT ![r] = <<>>] \/ queue' = queue
    BY DEF Exit
  <2> QED  BY <2>1, <2>2
<1>2. /\ UNCHANGED <<posts, relayed, generated>>
      /\ hold' = [hold EXCEPT ![r] = None] /\ pc' = [pc EXCEPT ![r] = "loop"]
      /\ None \in 0 .. Len(posts)
  BY DEF Exit, SentInv, RelayType, None
<1>3. hold'[r] = None /\ pc'[r] = "loop" /\ queue'[r] = q
  BY <1>1, <1>2 DEF SentInv, RelayType
<1>4. Delivered' = Delivered /\ (\A m : Of(r, m)' = Of(r, m)) /\ InTurn(r)
  BY <1>2 DEF Delivered, Of, SentInv
<1>5. InTurn(r)'
  <2>1. CASE q = queue[r]
    BY <1>3, <1>4, <2>1 DEF InTurn
  <2>2. CASE q = <<>>
    BY <1>3, <1>4, <2>2 DEF InTurn
  <2> QED  BY <1>1, <2>1, <2>2
<1> QED  BY <1>1, <1>2, <1>5, OneRelay

\* The broker gets the row in hand, for the first time or once more.
LEMMA PublishKeeps ==
    ASSUME SentInv, NEW r \in Replica, Publish(r)
    PROVE  SentInv'
<1> DEFINE h == hold[r]
           n == Len(relayed)
<1>1. /\ pc[r] = "publish" /\ relayed' = Append(relayed, Message(h))
      /\ UNCHANGED <<posts, queue, hold, generated>>
      /\ pc' = pc \/ pc' = [pc EXCEPT ![r] = "ack"]
  BY DEF Publish, relaySame, registry
<1>2. posts \in Seq(PostType) /\ h \in 1 .. Len(posts) /\ h # None /\ Of(r, h) /\ Len(posts) \in Nat
  <2>1. posts \in Seq(PostType) /\ h # None
    BY <1>1 DEF SentInv, RelayType
  <2>2. Of(r, h)
    BY <2>1 DEF SentInv, InTurn
  <2> HIDE DEF h
  <2> QED  BY <2>1, <2>2 DEF Of
<1>3. /\ Message(h) \in MessageType /\ Message(h).post = h /\ Message(h).dev = posts[h].dev
      /\ Len(posts[h].tag) = 1 =>
            <<Message(h).tag>> = posts[h].tag /\ Message(h).body = posts[h].body
  BY <1>2, MessageOfPost
<1>4. PICK msg : msg = Message(h)
  OBVIOUS
<1>5. /\ relayed \in Seq(MessageType) /\ n \in Nat
      /\ relayed' \in Seq(MessageType) /\ Len(relayed') = n + 1
      /\ relayed'[n + 1] = msg /\ \A i \in 1 .. n : relayed'[i] = relayed[i]
      /\ DOMAIN relayed' = 1 .. n + 1 /\ DOMAIN relayed = 1 .. n
  BY <1>1, <1>3, <1>4 DEF SentInv, RelayType
<1>6. \A i \in 1 .. n + 1 : i \in 1 .. n \/ i = n + 1
  BY <1>5
<1>7. msg.post = h /\ (\A i \in 1 .. n : relayed[i].post \in 1 .. Len(posts))
  BY <1>3, <1>4, <1>5 DEF SentInv, RelayType
<1>8. /\ pc' \in [Replica -> {"loop", "publish", "ack", "retry"}]
      /\ \A s \in Replica : (pc'[s] = "loop") = (pc[s] = "loop")
      /\ \A s \in Replica : s # r => pc'[s] = pc[s]
  BY <1>1 DEF SentInv, RelayType
<1> HIDE DEF n
<1>9. RelayType'
  <2>1. \A i \in 1 .. n + 1 : relayed'[i].post \in 1 .. Len(posts)
    BY <1>2, <1>5, <1>6, <1>7
  <2> QED  BY <1>1, <1>5, <1>8, <2>1 DEF SentInv, RelayType
<1>10. RelayedAsPosted'
  <2> SUFFICES ASSUME NEW i \in 1 .. n + 1
               PROVE  LET p == posts[relayed'[i].post] IN
                      /\ relayed'[i].dev = p.dev /\ p.dev \in generated
                      /\ Len(p.tag) = 1 => <<relayed'[i].tag>> = p.tag /\ relayed'[i].body = p.body
    BY <1>1, <1>5 DEF RelayedAsPosted
  <2>1. CASE i \in 1 .. n
    BY <1>5, <2>1 DEF SentInv, RelayedAsPosted
  <2>2. CASE i = n + 1
    <3>1. posts[h].dev \in generated
      BY <1>2 DEF SentInv
    <3> QED  BY <1>3, <1>4, <1>5, <2>2, <3>1
  <2> QED  BY <1>6, <2>1, <2>2
<1>11. Delivered' = Delivered \cup {h}
  <2>1. n + 1 \in 1 .. n + 1 /\ \A i \in 1 .. n : i \in 1 .. n + 1
    BY <1>5
  <2> QED  BY <1>5, <1>6, <1>7, <2>1 DEF Delivered
<1>12. ASSUME NEW s \in Replica  PROVE InTurn(s)'
  <2>1. InTurn(s) /\ queue'[s] = queue[s] /\ hold'[s] = hold[s] /\ \A m : Of(s, m)' = Of(s, m)
    BY <1>1 DEF SentInv, Of
  <2>2. Of(s, h) => s = r
    BY <1>2 DEF Of
  <2>3. pc'[s] = "ack" => pc[s] = "ack" \/ s = r
    BY <1>8
  <2>4. \A m \in Delivered \cup {h} : Of(s, m) =>
            /\ hold[s] # None => m <= hold[s]
            /\ \A i \in 1 .. Len(queue[s]) : m < queue[s][i]
    BY <1>2, <2>1, <2>2 DEF InTurn
  <2>5. pc'[s] = "ack" => hold[s] \in Delivered \cup {h}
    BY <2>1, <2>3 DEF InTurn
  <2> HIDE DEF h
  <2> QED  BY <1>11, <2>1, <2>4, <2>5 DEF InTurn
<1>13. InOrder'
  <2> SUFFICES ASSUME NEW i \in 1 .. n + 1, NEW j \in 1 .. n + 1, i < j,
                      posts[relayed'[i].post].at = posts[relayed'[j].post].at
               PROVE  relayed'[i].post <= relayed'[j].post
    BY <1>1, <1>5 DEF InOrder
  <2>1. i \in 1 .. n
    BY <1>5
  <2>2. CASE j \in 1 .. n
    BY <1>5, <2>1, <2>2 DEF SentInv, InOrder
  <2>3. CASE j = n + 1
    <3>1. relayed[i].post \in Delivered /\ Of(r, relayed[i].post)
      BY <1>2, <1>4, <1>5, <1>7, <2>1, <2>3 DEF Delivered, Of
    <3>2. relayed[i].post <= h
      BY <1>2, <3>1 DEF SentInv, InTurn
    <3> QED  BY <1>5, <1>7, <2>1, <2>3, <3>2
  <2> QED  BY <1>6, <2>2, <2>3
<1>14. (\A m \in 1 .. Len(posts) : posts[m].dev \in generated)'
  BY <1>1 DEF SentInv
<1> QED  BY <1>9, <1>10, <1>12, <1>13, <1>14 DEF SentInv

\* Nothing is posted, queued or relayed at the start.
LEMMA SentStart == Init => SentInv
<1> SUFFICES ASSUME Init  PROVE SentInv
  OBVIOUS
<1>1. /\ posts = <<>> /\ relayed = <<>> /\ Len(posts) = 0 /\ DOMAIN relayed = {}
      /\ \A r \in Replica : queue[r] = <<>> /\ hold[r] = None /\ pc[r] = "loop"
  BY DEF Init
<1>2. RelayType
  BY <1>1 DEF Init, RelayType, None
<1>3. RelayedAsPosted /\ InOrder /\ Delivered = {}
  BY <1>1 DEF RelayedAsPosted, InOrder, Delivered
<1>4. \A r \in Replica : InTurn(r)
  BY <1>1, <1>3 DEF InTurn
<1> QED  BY <1>1, <1>2, <1>3, <1>4 DEF SentInv

\* Every step keeps what is queued and relayed in turn.
LEMMA SentStep == HandlersInv /\ SentInv /\ [Next]_vars => SentInv'
<1> SUFFICES ASSUME HandlersInv, SentInv, [Next]_vars  PROVE SentInv'
  OBVIOUS
<1>1. HandlersInv' /\ generated \subseteq generated'
  <2>1. HandlersInv'
    BY HandlersStep
  <2>2. ASSUME NEW h \in Handler, Serve(h)  PROVE generated \subseteq generated'
    BY <2>2 DEF Serve, InsertOne, ReadBack, DeleteDevice, FindCreds, CacheCreds, DescribeDevice,
       FindKey, CacheKey, RefuseToken, Post, FindUser, AdmitUser, AdmitDevice, LookUpName, AdmitTopic,
       ValidateLogin, GenerateJWT, DeleteUser, registry
  <2>3. ASSUME NEW r \in Replica, Relay(r)  PROVE generated \subseteq generated'
    BY <2>3 DEF Relay, Dequeue, Publish, PublishFails, Ack, relaySame, registry
  <2>4. ASSUME NEW h \in Handler, NEW r \in Replica, Arrives(h, r)
        PROVE  generated \subseteq generated'
    BY <2>4, ArrivesRequests DEF Request, registry
  <2>5. ASSUME NEW r \in Replica,
               Sigterm(r) \/ Drained(r) \/ ShutdownFails(r) \/ Closed(r) \/ Crash(r)
        PROVE  generated \subseteq generated'
    BY <2>5 DEF Sigterm, Drained, ShutdownFails, Closed, Crash, Exit, registry
  <2>6. UNCHANGED vars => generated \subseteq generated'
    BY DEF vars, registry
  <2> QED  BY <2>1, <2>2, <2>3, <2>4, <2>5, <2>6 DEF Next
<1>2. CASE Quiet
  BY <1>1, <1>2, SentStays DEF Quiet
<1>3. ASSUME NEW r \in Replica, Posted(r)  PROVE SentInv'
  BY <1>1, <1>3, PostedKeeps
<1>4. ASSUME NEW r \in Replica, Dequeue(r) \/ Publish(r)  PROVE SentInv'
  BY <1>4, DequeueKeeps, PublishKeeps
<1>5. ASSUME NEW r \in Replica, PublishFails(r) \/ Ack(r) \/ Ended(r)  PROVE SentInv'
  BY <1>5, AckKeeps, EndedKeeps DEF Ended
<1> QED  BY <1>2, <1>3, <1>4, <1>5, RelaySteps

------------------------------------------------------------------------------
(* How often posts are relayed, and how many are lost *)

\* Posts that were delivered and will be sent again: their PUBACK was lost.
Again == {m \in Delivered : \E r \in Replica : pc[r] = "publish" /\ hold[r] = m}

\* Each lost PUBACK pays for one packet more than there are posts delivered.
Repeats == Len(relayed) + Cardinality(Again) <= Cardinality(Delivered) + lostAcks

Missed == {m \in Lost : posts[m].at \notin wiped}
Ending == {r \in Replica : svc[r] # "up"}

\* An error of a queue, a crash or a SIGTERM pays for each post that is lost
\* without its queue file; a SIGTERM that has not ended its process yet has not
\* been spent.
Paid ==
    /\ IsFiniteSet(Ending)
    /\ Cardinality(Missed) + Cardinality(Ending) <= errors + crashes + stops

\* What was delivered, and what is lost, are some of the posts.
LEMMA PostsAreFinite ==
    ASSUME SentInv
    PROVE  /\ Delivered \subseteq 1 .. Len(posts) /\ IsFiniteSet(Delivered) /\ Cardinality(Delivered) \in Nat
           /\ IsFiniteSet(Again) /\ Cardinality(Again) \in Nat
           /\ Missed \subseteq 1 .. Len(posts) /\ IsFiniteSet(Missed) /\ Cardinality(Missed) \in Nat
<1>1. Len(posts) \in Nat /\ DOMAIN posts = 1 .. Len(posts)
  BY DEF SentInv, RelayType
<1>2. Delivered \subseteq 1 .. Len(posts) /\ Again \subseteq 1 .. Len(posts) /\ Missed \subseteq 1 .. Len(posts)
  BY <1>1 DEF Delivered, Again, Missed, Lost, SentInv, RelayType
<1>3. IsFiniteSet(1 .. Len(posts))
  BY <1>1, FS_Interval
<1>4. \A T \in SUBSET (1 .. Len(posts)) : IsFiniteSet(T) /\ Cardinality(T) \in Nat
  BY <1>3, FS_Subset, FS_CardinalityType
<1> QED  BY <1>2, <1>4

\* A step that delivers nothing and sends nothing again.
LEMMA RepeatsNoMore ==
    ASSUME SentInv, Repeats, CountType, UNCHANGED <<relayed, lostAcks>>, Again' \subseteq Again
    PROVE  Repeats'
<1>1. Cardinality(Again') \in Nat /\ Cardinality(Again') <= Cardinality(Again)
  BY PostsAreFinite, FS_Subset, FS_CardinalityType
<1>2. Delivered' = Delivered
  BY DEF Delivered
<1>3. Len(relayed) \in Nat /\ lostAcks \in Nat
  BY DEF SentInv, RelayType, CountType
<1> QED  BY <1>1, <1>2, <1>3, PostsAreFinite DEF Repeats

\* The packet of a post is its first, or one that a lost PUBACK has paid for.
LEMMA PublishRepeats ==
    ASSUME SentInv, Repeats, CountType, NEW r \in Replica, Publish(r)
    PROVE  Repeats'
<1> DEFINE h == hold[r]
<1>1. /\ pc[r] = "publish" /\ relayed' = Append(relayed, Message(h)) /\ UNCHANGED <<posts, hold>>
      /\ \/ pc' = [pc EXCEPT ![r] = "ack"] /\ lostAcks' = lostAcks
         \/ pc' = pc /\ lostAcks' = lostAcks + 1
  BY DEF Publish, relaySame, faults
<1>2. h # None /\ Of(r, h) /\ h \in 1 .. Len(posts)
  <2>1. h # None
    BY <1>1 DEF SentInv, RelayType
  <2>2. Of(r, h)
    BY <2>1 DEF SentInv, InTurn
  <2> QED  BY <2>1, <2>2 DEF Of
<1>3. Message(h).post = h /\ Message(h) \in MessageType
  BY <1>2, MessageOfPost DEF SentInv, RelayType
<1>4. /\ Len(relayed) \in Nat /\ Len(relayed') = Len(relayed) + 1
      /\ Delivered' = Delivered \cup {h}
  <2>1. PICK msg \in MessageType : msg = Message(h)
    BY <1>3
  <2>2. relayed \in Seq(MessageType) /\ relayed' = Append(relayed, msg)
    BY <1>1, <2>1 DEF SentInv, RelayType
  <2>3. /\ Len(relayed) \in Nat /\ Len(relayed') = Len(relayed) + 1
        /\ DOMAIN relayed = 1 .. Len(relayed) /\ DOMAIN relayed' = 1 .. Len(relayed) + 1
        /\ relayed'[Len(relayed) + 1] = msg
        /\ \A i \in 1 .. Len(relayed) : relayed'[i] = relayed[i]
    BY <2>2
  <2>4. Delivered' = Delivered \cup {h}
    <3>1. \A i \in 1 .. Len(relayed) + 1 : i \in 1 .. Len(relayed) \/ i = Len(relayed) + 1
      BY <2>3
    <3>2. Len(relayed) + 1 \in 1 .. Len(relayed) + 1 /\ \A i \in 1 .. Len(relayed) : i \in 1 .. Len(relayed) + 1
      BY <2>3
    <3> QED  BY <1>3, <2>1, <2>3, <3>1, <3>2 DEF Delivered
  <2> QED  BY <2>3, <2>4
<1>5. \A s \in Replica : hold[s] = h => s = r
  BY <1>2 DEF SentInv, InTurn, Of
<1>6. lostAcks \in Nat
  BY DEF CountType
<1>7. Cardinality(Delivered') = IF h \in Delivered THEN Cardinality(Delivered) ELSE Cardinality(Delivered) + 1
  BY <1>4, PostsAreFinite, FS_AddElement
<1>8. h \in Again <=> h \in Delivered
  BY <1>1 DEF Again
<1>9. CASE pc' = [pc EXCEPT ![r] = "ack"] /\ lostAcks' = lostAcks
  <2>1. Again' = Again \ {h}
    <3>1. pc'[r] = "ack" /\ \A s \in Replica \ {r} : pc'[s] = pc[s]
      BY <1>9 DEF SentInv, RelayType
    <3>2. hold' = hold
      BY <1>1
    <3> QED  BY <1>4, <1>5, <3>1, <3>2 DEF Again
  <2>2. Cardinality(Again') = IF h \in Again THEN Cardinality(Again) - 1 ELSE Cardinality(Again)
    BY <2>1, PostsAreFinite, FS_RemoveElement
  <2> QED  BY <1>4, <1>6, <1>7, <1>8, <1>9, <2>2, PostsAreFinite DEF Repeats
<1>10. CASE pc' = pc /\ lostAcks' = lostAcks + 1
  <2>1. Again' = Again \cup {h}
    BY <1>1, <1>4, <1>10 DEF Again
  <2>2. Cardinality(Again') = IF h \in Again THEN Cardinality(Again) ELSE Cardinality(Again) + 1
    BY <2>1, PostsAreFinite, FS_AddElement
  <2> QED  BY <1>4, <1>6, <1>7, <1>8, <1>10, <2>2, PostsAreFinite DEF Repeats
<1> QED  BY <1>1, <1>9, <1>10

\* Every step keeps the count of packets.
LEMMA RepeatsStep == HandlersInv /\ CountType /\ SentInv /\ Repeats /\ [Next]_vars => Repeats'
<1> SUFFICES ASSUME HandlersInv, CountType, SentInv, Repeats, [Next]_vars  PROVE Repeats'
  OBVIOUS
<1>1. CASE Quiet
  <2>1. Again' \subseteq Again /\ UNCHANGED <<relayed, lostAcks>>
    BY <1>1 DEF Quiet, relay, Again, Delivered
  <2> QED  BY <2>1, RepeatsNoMore
<1>2. ASSUME NEW r \in Replica, Posted(r)  PROVE Repeats'
  <2>1. Again' \subseteq Again /\ UNCHANGED <<relayed, lostAcks>>
    BY <1>2 DEF Posted, Again, Delivered
  <2> QED  BY <2>1, RepeatsNoMore
<1>3. ASSUME NEW r \in Replica, Dequeue(r)  PROVE Repeats'
  <2>1. UNCHANGED <<relayed, lostAcks>> /\ Delivered' = Delivered
    BY <1>3 DEF Dequeue, faults, Delivered
  <2>2. hold'[r] = queue[r][1] /\ \A s \in Replica : s # r => pc'[s] = pc[s] /\ hold'[s] = hold[s]
    BY <1>3, HeadAndTail DEF Dequeue, SentInv, RelayType
  <2>3. queue[r][1] \notin Delivered
    <3>1. 1 \in 1 .. Len(queue[r]) /\ queue[r][1] \in 1 .. Len(posts)
      BY <1>3 DEF Dequeue, SentInv, RelayType
    <3>2. Of(r, queue[r][1])
      BY <3>1 DEF SentInv, InTurn
    <3>3. queue[r][1] \in Delivered => queue[r][1] < queue[r][1]
      BY <3>1, <3>2 DEF SentInv, InTurn
    <3> QED  BY <3>1, <3>3
  <2>4. Again' \subseteq Again
    BY <2>1, <2>2, <2>3 DEF Again
  <2> QED  BY <2>1, <2>4, RepeatsNoMore
<1>4. ASSUME NEW r \in Replica, Publish(r)  PROVE Repeats'
  BY <1>4, PublishRepeats
<1>5. ASSUME NEW r \in Replica, PublishFails(r) \/ Ack(r) \/ Ended(r)  PROVE Repeats'
  <2>1. UNCHANGED <<relayed, lostAcks>> /\ Delivered' = Delivered
    BY <1>5 DEF PublishFails, Ack, Ended, Exit, faults, Delivered
  <2>2. pc'[r] # "publish" /\ \A s \in Replica : s # r => pc'[s] = pc[s] /\ hold'[s] = hold[s]
    BY <1>5 DEF PublishFails, Ack, Ended, Exit, SentInv, RelayType
  <2>3. Again' \subseteq Again
    BY <2>1, <2>2 DEF Again
  <2> QED  BY <2>1, <2>3, RepeatsNoMore
<1> QED  BY <1>1, <1>2, <1>3, <1>4, <1>5, RelaySteps

\* A replica still has post m, in its queue or in the relay's hands.
Kept(m) ==
    \E r \in Replica : hold[r] = m \/ \E i \in 1 .. Len(queue[r]) : queue[r][i] = m

\* The lost posts are those neither delivered nor kept.
LEMMA MissedAre ==
    ASSUME RelayType
    PROVE  \A m : m \in Missed <=>
                /\ m \in 1 .. Len(posts) /\ m \notin Delivered /\ ~Kept(m)
                /\ posts[m].at \notin wiped
<1>1. DOMAIN posts = 1 .. Len(posts) /\ \A r \in Replica : DOMAIN queue[r] = 1 .. Len(queue[r])
  BY DEF RelayType
<1>2. \A m : (m \in UNION {Range(queue[r]) \cup {hold[r]} : r \in Replica}) <=> Kept(m)
  BY <1>1 DEF Kept, Range
<1> QED  BY <1>1, <1>2 DEF Missed, Lost

\* The same after a step.
LEMMA MissedAreAfter ==
    ASSUME RelayType'
    PROVE  \A m : m \in Missed' <=>
                /\ m \in 1 .. Len(posts') /\ m \notin Delivered' /\ ~Kept(m)'
                /\ posts'[m].at \notin wiped'
<1>1. DOMAIN posts' = 1 .. Len(posts') /\ \A r \in Replica : DOMAIN queue'[r] = 1 .. Len(queue'[r])
  BY DEF RelayType
<1>2. \A m : (m \in UNION {Range(queue'[r]) \cup {hold'[r]} : r \in Replica}) <=> Kept(m)'
  BY <1>1 DEF Kept, Range
<1> QED  BY <1>1, <1>2 DEF Missed, Lost

\* A step that loses nothing.
LEMMA MissesNoMore ==
    ASSUME SentInv, Missed' \subseteq Missed
    PROVE  Cardinality(Missed') \in Nat /\ Cardinality(Missed') <= Cardinality(Missed)
BY PostsAreFinite, FS_Subset, FS_CardinalityType

\* A step that may lose one post.
LEMMA MissesOneMore ==
    ASSUME SentInv, NEW m, Missed' \subseteq Missed \cup {m}
    PROVE  Cardinality(Missed') \in Nat /\ Cardinality(Missed') <= Cardinality(Missed) + 1
<1> DEFINE more == Missed \cup {m}
<1>0. IsFiniteSet(Missed) /\ Cardinality(Missed) \in Nat
  BY PostsAreFinite
<1>1. IsFiniteSet(more) /\ Cardinality(more) <= Cardinality(Missed) + 1
  BY <1>0, FS_AddElement
<1> HIDE DEF more
<1>2. Cardinality(Missed') \in Nat /\ Cardinality(Missed') <= Cardinality(more) /\ Cardinality(more) \in Nat
  <2>1. Missed' \in SUBSET more
    BY DEF more
  <2> QED  BY <1>1, <2>1, FS_Subset, FS_CardinalityType
<1> QED  BY <1>0, <1>1, <1>2

\* A step that ends no process, given what it loses and what its faults add.
LEMMA StaysPaid ==
    ASSUME SentInv, CountType, Paid, UNCHANGED <<svc, crashes, stops>>,
           \/ Missed' \subseteq Missed /\ errors' \in {errors, errors + 1}
           \/ (\E m : Missed' \subseteq Missed \cup {m}) /\ errors' = errors + 1
    PROVE  Paid'
<1>1. Ending' = Ending
  BY DEF Ending
<1>2. Cardinality(Ending) \in Nat /\ Cardinality(Missed) \in Nat
  BY PostsAreFinite, FS_CardinalityType DEF Paid
<1>3. errors \in Nat /\ crashes \in Nat /\ stops \in Nat
  BY DEF CountType
<1>4. CASE Missed' \subseteq Missed /\ errors' \in {errors, errors + 1}
  <2>1. Cardinality(Missed') \in Nat /\ Cardinality(Missed') <= Cardinality(Missed)
    BY <1>4, MissesNoMore
  <2> QED  BY <1>1, <1>2, <1>3, <1>4, <2>1 DEF Paid
<1>5. CASE (\E m : Missed' \subseteq Missed \cup {m}) /\ errors' = errors + 1
  <2>1. Cardinality(Missed') \in Nat /\ Cardinality(Missed') <= Cardinality(Missed) + 1
    BY <1>5, MissesOneMore
  <2> QED  BY <1>1, <1>2, <1>3, <1>5, <2>1 DEF Paid
<1> QED  BY <1>4, <1>5

\* A post that EnqueueData could not store costs an error.
LEMMA PostedPays ==
    ASSUME SentInv, SentInv', CountType, Paid, NEW r \in Replica, Posted(r)
    PROVE  Paid'
<1>1. PICK n \in Nat : n = Len(posts) + 1
  BY DEF SentInv, RelayType
<1>2. /\ \A m \in 1 .. Len(posts') : m \in 1 .. Len(posts) \/ m = n
      /\ \A m \in 1 .. Len(posts) : posts'[m] = posts[m]
  <2>1. PICK p : posts' = Append(posts, p)
    BY DEF Posted
  <2>2. posts \in Seq(PostType) /\ posts' \in Seq(PostType)
    BY DEF SentInv, RelayType
  <2> QED  BY <1>1, <2>1, <2>2
<1>3. UNCHANGED <<hold, relayed, svc, wiped, crashes, stops>> /\ Delivered' = Delivered
  BY DEF Posted, Delivered
<1>4. CASE queue' = queue /\ errors' = errors + 1
  <2>1. \A m : Kept(m)' <=> Kept(m)
    BY <1>3, <1>4 DEF Kept
  <2>2. Missed' \subseteq Missed \cup {n}
    BY <1>2, <1>3, <2>1, MissedAre, MissedAreAfter DEF SentInv
  <2> QED  BY <1>3, <1>4, <2>2, StaysPaid
<1>5. CASE queue' = [queue EXCEPT ![r] = Append(queue[r], n)] /\ errors' = errors
  <2>1. queue \in [Replica -> Seq(1 .. Len(posts))]
    BY DEF SentInv, RelayType
  <2>2. /\ Len(queue[r]) \in Nat /\ Len(queue'[r]) = Len(queue[r]) + 1
        /\ queue'[r][Len(queue[r]) + 1] = n
        /\ \A i \in 1 .. Len(queue[r]) : queue'[r][i] = queue[r][i]
    BY <1>5, <2>1
  <2>3. Len(queue[r]) + 1 \in 1 .. Len(queue'[r]) /\ \A i \in 1 .. Len(queue[r]) : i \in 1 .. Len(queue'[r])
    BY <2>2
  <2>4. \A s \in Replica : s # r => queue'[s] = queue[s]
    BY <1>5, <2>1
  <2>5. Kept(n)' /\ \A m : Kept(m) => Kept(m)'
    <3>1. Kept(n)'
      BY <2>2, <2>3 DEF Kept
    <3>2. ASSUME NEW m, Kept(m)  PROVE Kept(m)'
      <4>1. PICK s \in Replica : hold[s] = m \/ \E i \in 1 .. Len(queue[s]) : queue[s][i] = m
        BY <3>2 DEF Kept
      <4>2. CASE s = r
        BY <1>3, <2>2, <2>3, <4>1, <4>2 DEF Kept
      <4>3. CASE s # r
        BY <1>3, <2>4, <4>1, <4>3 DEF Kept
      <4> QED  BY <4>2, <4>3
    <3> QED  BY <3>1, <3>2
  <2>6. \A m : m \in Missed' => m \in Missed
    BY <1>2, <1>3, <2>5, MissedAre, MissedAreAfter DEF SentInv
  <2> QED  BY <1>3, <1>5, <2>6, StaysPaid
<1>6. \/ queue' = queue /\ errors' = errors + 1
      \/ queue' = [queue EXCEPT ![r] = Append(queue[r], n)] /\ errors' = errors
  BY <1>1 DEF Posted
<1> QED  BY <1>4, <1>5, <1>6

\* The end of a process costs the row in hand, and the rest of its queue only
\* with the queue's file.
LEMMA EndedPays ==
    ASSUME SentInv, SentInv', HandlersInv, CountType, Paid, NEW r \in Replica, Ended(r)
    PROVE  Paid'
<1>1. UNCHANGED <<posts, relayed, stops, errors>> /\ Delivered' = Delivered
  BY DEF Ended, Exit, Delivered
<1>2. hold' = [hold EXCEPT ![r] = None] /\ svc' = [svc EXCEPT ![r] = "up"]
  BY DEF Ended, Exit
<1>3. \/ queue' = [queue EXCEPT ![r] = <<>>] /\ wiped' = wiped \cup {r}
      \/ UNCHANGED <<queue, wiped>>
  BY DEF Ended, Exit
<1>4. \A s \in Replica : s # r => hold'[s] = hold[s] /\ queue'[s] = queue[s]
  BY <1>2, <1>3 DEF SentInv, RelayType
<1>5. ASSUME NEW m, m \in Missed', m # hold[r]  PROVE m \in Missed
  <2>1. m \in 1 .. Len(posts) /\ m \notin Delivered /\ ~Kept(m)' /\ posts[m].at \notin wiped'
    BY <1>1, <1>5, MissedAre, MissedAreAfter DEF SentInv
  <2>2. posts[m].at \notin wiped
    BY <1>3, <2>1
  <2>3. ASSUME NEW s \in Replica, hold[s] = m \/ \E i \in 1 .. Len(queue[s]) : queue[s][i] = m
        PROVE  FALSE
    <3>1. CASE s # r
      BY <1>4, <2>1, <2>3, <3>1 DEF Kept
    <3>2. CASE s = r
      <4>1. PICK i \in 1 .. Len(queue[r]) : queue[r][i] = m
        BY <1>5, <2>3, <3>2
      <4>2. Of(r, m)
        BY <4>1 DEF SentInv, InTurn
      <4>3. UNCHANGED <<queue, wiped>>
        BY <1>3, <2>1, <4>2 DEF Of
      <4> QED  BY <2>1, <4>1, <4>3 DEF Kept
    <3> QED  BY <3>1, <3>2
  <2>4. ~Kept(m)
    BY <2>3 DEF Kept
  <2> QED  BY <2>1, <2>2, <2>4, MissedAre, MissedAreAfter DEF SentInv
<1>6. Missed' \subseteq Missed \cup {hold[r]}
  BY <1>5
<1>7. Cardinality(Missed') \in Nat /\ Cardinality(Missed') <= Cardinality(Missed) + 1
  BY <1>6, MissesOneMore
<1>8. Ending' = Ending \ {r}
  BY <1>2 DEF Ending, HandlersInv, HandlerType
<1>9. /\ IsFiniteSet(Ending') /\ Cardinality(Ending) \in Nat
      /\ Cardinality(Ending') = IF r \in Ending THEN Cardinality(Ending) - 1 ELSE Cardinality(Ending)
  BY <1>8, FS_RemoveElement, FS_CardinalityType DEF Paid
<1>10. \/ crashes' = crashes + 1
       \/ crashes' = crashes /\ r \in Ending
  BY DEF Ended, Ending
<1>11. crashes \in Nat /\ stops \in Nat /\ errors \in Nat /\ Cardinality(Missed) \in Nat
  BY PostsAreFinite DEF CountType
<1> QED  BY <1>1, <1>7, <1>9, <1>10, <1>11 DEF Paid

\* Every step pays for what it loses.
LEMMA PaidStep == HandlersInv /\ CountType /\ SentInv /\ Paid /\ [Next]_vars => Paid'
<1> SUFFICES ASSUME HandlersInv, CountType, SentInv, Paid, [Next]_vars  PROVE Paid'
  OBVIOUS
<1>0. SentInv'
  BY SentStep
<1>1. CASE Quiet
  <2>1. Missed' = Missed /\ errors' \in {errors, errors + 1} /\ crashes' = crashes
    BY <1>1 DEF Quiet, relay, Missed, Lost, Delivered
  <2>2. CASE UNCHANGED <<svc, stops>>
    BY <2>1, <2>2, StaysPaid
  <2>3. ASSUME NEW r \in Replica, Sigterm(r)  PROVE Paid'
    <3>1. Ending' = Ending \cup {r} /\ r \notin Ending /\ stops' = stops + 1
      BY <2>3 DEF Sigterm, Ending, HandlersInv, HandlerType
    <3>2. IsFiniteSet(Ending') /\ Cardinality(Ending') = Cardinality(Ending) + 1
      BY <3>1, FS_AddElement DEF Paid
    <3>3. Cardinality(Ending) \in Nat /\ Cardinality(Missed) \in Nat
      BY PostsAreFinite, FS_CardinalityType DEF Paid
    <3>4. errors \in Nat /\ crashes \in Nat /\ stops \in Nat
      BY DEF CountType
    <3> QED  BY <2>1, <3>1, <3>2, <3>3, <3>4 DEF Paid
  <2>4. ASSUME NEW r \in Replica, Drained(r)  PROVE Paid'
    <3>1. Ending' = Ending /\ UNCHANGED <<errors, crashes, stops>>
      BY <2>4 DEF Drained, Ending, faults, HandlersInv, HandlerType
    <3> QED  BY <2>1, <3>1 DEF Paid
  <2> QED  BY <1>1, <2>2, <2>3, <2>4 DEF Quiet
<1>2. ASSUME NEW r \in Replica, Posted(r)  PROVE Paid'
  BY <1>0, <1>2, PostedPays
<1>3. ASSUME NEW r \in Replica, Dequeue(r) \/ Publish(r) \/ PublishFails(r) \/ Ack(r)  PROVE Paid'
  <2>1. UNCHANGED <<posts, svc, wiped, crashes, stops, errors>>
    BY <1>3 DEF Dequeue, Publish, PublishFails, Ack, relaySame, serving, faults
  <2>2. ASSUME NEW m, Kept(m), m \in 1 .. Len(posts)  PROVE Kept(m)' \/ m \in Delivered'
    <3>1. CASE Dequeue(r)
      <4>1. PICK s \in Replica : hold[s] = m \/ \E i \in 1 .. Len(queue[s]) : queue[s][i] = m
        BY <2>2 DEF Kept
      <4>2. /\ hold' = [hold EXCEPT ![r] = Head(queue[r])] /\ queue' = [queue EXCEPT ![r] = Tail(queue[r])]
            /\ queue[r] \in Seq(1 .. Len(posts)) /\ queue[r] # <<>> /\ hold[r] = None
        BY <3>1 DEF Dequeue, SentInv, RelayType
      <4>3. hold'[r] = Head(queue[r]) /\ queue'[r] = Tail(queue[r])
        BY <4>2 DEF SentInv, RelayType
      <4>4. CASE s # r
        <5>1. hold'[s] = hold[s] /\ queue'[s] = queue[s]
          BY <4>2, <4>4 DEF SentInv, RelayType
        <5> QED  BY <4>1, <5>1 DEF Kept
      <4>5. CASE s = r
        <5>1. PICK i \in 1 .. Len(queue[r]) : queue[r][i] = m
          BY <2>2, <4>1, <4>2, <4>5 DEF None, SentInv, RelayType
        <5>2. CASE i = 1
          BY <4>2, <4>3, <5>1, <5>2, HeadAndTail DEF Kept
        <5>3. CASE i # 1
          <6>1. i - 1 \in 1 .. Len(Tail(queue[r])) /\ Tail(queue[r])[i - 1] = m
            BY <4>2, <5>1, <5>3, HeadAndTail
          <6> QED  BY <4>3, <6>1 DEF Kept
        <5> QED  BY <5>2, <5>3
      <4> QED  BY <4>4, <4>5
    <3>2. CASE Publish(r) \/ PublishFails(r)
      BY <2>2, <3>2 DEF Publish, PublishFails, Kept
    <3>3. CASE Ack(r)
      <4>1. hold[r] \in Delivered /\ Delivered' = Delivered
        BY <3>3 DEF Ack, SentInv, InTurn, Delivered
      <4>2. queue' = queue /\ \A s \in Replica : s # r => hold'[s] = hold[s]
        BY <3>3 DEF Ack, SentInv, RelayType
      <4> QED  BY <2>2, <4>1, <4>2 DEF Kept
    <3> QED  BY <1>3, <3>1, <3>2, <3>3
  <2>3. Delivered \subseteq Delivered'
    <3>1. CASE Publish(r)
      <4>1. /\ Len(relayed) \in Nat /\ DOMAIN relayed = 1 .. Len(relayed)
            /\ DOMAIN relayed' = 1 .. Len(relayed) + 1
            /\ \A i \in 1 .. Len(relayed) : relayed'[i] = relayed[i]
        BY <1>0, <3>1 DEF Publish, SentInv, RelayType
      <4>2. \A i \in 1 .. Len(relayed) : i \in 1 .. Len(relayed) + 1
        BY <4>1
      <4> QED  BY <4>1, <4>2 DEF Delivered
    <3>2. CASE UNCHANGED relayed
      BY <3>2 DEF Delivered
    <3> QED  BY <1>3, <3>1, <3>2 DEF Dequeue, PublishFails, Ack
  <2>4. \A m : m \in Missed' => m \in Missed
    BY <1>0, <2>1, <2>2, <2>3, MissedAre, MissedAreAfter DEF SentInv
  <2> QED  BY <2>1, <2>4, StaysPaid
<1>4. ASSUME NEW r \in Replica, Ended(r)  PROVE Paid'
  BY <1>0, <1>4, EndedPays
<1> QED  BY <1>1, <1>2, <1>3, <1>4, RelaySteps

RelayInv == CountType /\ SentInv /\ Repeats /\ Paid

\* Nothing was posted, sent or lost at the start.
LEMMA RelayStart == Init => RelayInv
<1> SUFFICES ASSUME Init  PROVE RelayInv
  OBVIOUS
<1>1. SentInv
  BY SentStart
<1>2. CountType
  <2>1. NoAnswer \in AnswerType
    BY DEF NoAnswer, AnswerType, Op, Status, Saying
  <2> QED  BY <2>1, BackendAssumption DEF Init, CountType
<1>3. Delivered = {} /\ Again = {} /\ Missed = {} /\ Ending = {}
  BY DEF Init, Delivered, Again, Missed, Lost, Ending
<1>4. Cardinality({}) = 0 /\ IsFiniteSet({}) /\ Len(relayed) = 0
  BY FS_EmptySet DEF Init
<1>5. Repeats
  BY <1>3, <1>4 DEF Repeats, Init
<1>6. Paid
  BY <1>3, <1>4 DEF Paid, Init
<1> QED  BY <1>1, <1>2, <1>5, <1>6 DEF RelayInv

\* What is queued, in hand, delivered and lost, whatever the replicas, texts
\* and bounds: the inductive invariant of the relay.
THEOREM RelayInvHolds == Spec => []RelayInv
<1>1. HandlersInv /\ RelayInv /\ [Next]_vars => RelayInv'
  BY CountsStep, SentStep, RepeatsStep, PaidStep DEF RelayInv
<1> QED  BY RelayStart, HandlersInvHolds, <1>1, PTL DEF Spec

\* The types of the registry, the caches, the requests, the answers and the
\* relay are kept.
THEOREM BackendTypes == Spec => []TypeOK
<1>1. HandlersInv /\ RelayInv => TypeOK
  <2> SUFFICES ASSUME HandlersInv, RelayInv  PROVE TypeOK
    OBVIOUS
  <2>1. /\ devices \subseteq generated /\ generated \subseteq Device
        /\ keys \in [Replica -> SUBSET Device]
        /\ creds \in [Replica -> SUBSET Device]
        /\ isUser \in [Replica -> SUBSET (Name \X BOOLEAN)]
        /\ svc \in [Replica -> {"up", "draining", "closing"}]
        /\ req \in [Handler -> RequestType]
    BY DEF HandlersInv, RegistryInv, HandlerType
  <2>2. CountType /\ RelayType
    BY DEF RelayInv, SentInv
  <2> QED  BY <2>1, <2>2 DEF RequestType, At, CountType, AnswerType, Status, Saying, RelayType, PostType, TypeOK
<1> QED  BY HandlersInvHolds, RelayInvHolds, <1>1, PTL

\* The broker gets only what a registered device posted, under the name of that
\* device, and as posted when its tag has no slash (mqtt.go:59-75).
THEOREM BrokerGetsPosts == Spec => []RelayedAsPosted
<1>1. RelayInv => RelayedAsPosted
  BY DEF RelayInv, SentInv
<1> QED  BY RelayInvHolds, <1>1, PTL

\* A replica's posts are relayed in the order they came, and no more often than
\* PUBACKs were lost, for any number of replicas and posts.
THEOREM PostsInOrder == Spec => []RelayedInOrder
<1>1. RelayInv => RelayedInOrder
  <2> SUFFICES ASSUME RelayInv  PROVE RelayedInOrder
    OBVIOUS
  <2>1. /\ Len(relayed) \in Nat /\ lostAcks \in Nat
        /\ Cardinality(Delivered) \in Nat /\ Cardinality(Again) \in Nat
    BY PostsAreFinite DEF RelayInv, SentInv, RelayType, CountType
  <2>2. Len(relayed) - Cardinality(Delivered) <= lostAcks
    BY <2>1 DEF RelayInv, Repeats
  <2> QED  BY <2>2 DEF RelayInv, SentInv, InOrder, RelayedInOrder
<1> QED  BY RelayInvHolds, <1>1, PTL

\* A post that was answered "ok!" is lost only for an error of its queue, with
\* the queue's file, or for the end of the process that had it in hand.
THEOREM LossesArePaid == Spec => []LostOnlyByFault
<1>1. RelayInv => LostOnlyByFault
  <2> SUFFICES ASSUME RelayInv  PROVE LostOnlyByFault
    OBVIOUS
  <2>1. /\ Cardinality(Missed) \in Nat /\ Cardinality(Ending) \in Nat
        /\ errors \in Nat /\ crashes \in Nat /\ stops \in Nat
    BY PostsAreFinite, FS_CardinalityType DEF RelayInv, Paid, CountType
  <2>2. Cardinality(Missed) <= errors + crashes + stops
    BY <2>1 DEF RelayInv, Paid
  <2> QED  BY <2>2 DEF LostOnlyByFault, Missed
<1> QED  BY RelayInvHolds, <1>1, PTL

===============================================================================
