------------------------------- MODULE Backend -------------------------------
(***************************************************************************)
(* trackeroo-backend's requests and its publish relay (db.go, cache.go,    *)
(* mqtt.go, login.go, main.go, the handlers and middleware).  Every        *)
(* replica serves requests on one MongoDB, each in a goroutine of its own, *)
(* caches what it read of a device or a name, answers the MQTT broker who  *)
(* may connect and publish, queues what a device posts and relays the      *)
(* queue to the broker.                                                    *)
(*                                                                         *)
(* A device's key never changes, so a cache of keys is the set of devices  *)
(* that it has.  A credential is right or not: the user's password, or a   *)
(* token of the device's own key and name that has not expired.  A text is *)
(* the sequence of its parts between slashes.  The queue is the work queue *)
(* that PersistentQueue implements: what waits in it, and a row in hand    *)
(* that nothing takes again.  Requests that a handler refuses before it    *)
(* looks anything up are left out.                                         *)
(***************************************************************************)
EXTENDS Naturals, Sequences, FiniteSets, SequencesExt

CONSTANTS
    Replica,
    Handler,        \* goroutines of net/http: bound on requests at one time
    Device,         \* ids that GenDeviceID gives out: "trk-" and 16 digits
    User,           \* names in the users collection, which no handler changes
    Tag, Body,      \* texts posted
    MaxRequests,    \* bound: requests
    MaxEnds,        \* bound: replicas that die or get SIGTERM
    MaxFailures     \* bound: MongoDB or SQLite calls that return an error, and
                    \* PUBACKs lost with their connection

ASSUME BackendAssumption ==
    /\ {MaxRequests, MaxEnds, MaxFailures} \subseteq Nat
    /\ Device \cup User \subseteq STRING
    /\ Device \cap User = {}
    /\ Tag \cup Body \subseteq Seq(STRING) \ {<<>>}

VARIABLES
    devices,    \* the collection
    generated,  \* ids given out
    keys,       \* replica -> keysCache
    creds,      \* replica -> credentialsCache
    isUser,     \* replica -> isUserCache: the names that have an entry, with it
    svc,        \* replica -> "up", "draining" (server.Shutdown), "closing"
    req,        \* handler -> the request it handles, on which replica, how far
    answer,     \* what the last step of a handler answered: [status, says]
    requests,
    posts,      \* what was posted and answered "ok!", in order
    queue,      \* replica -> the numbers of the posts waiting
    hold,       \* replica -> the post in the relay's hands, or None
    pc,         \* replica -> where its relay is
    relayed,    \* what the broker accepted, in order
    wiped,      \* replicas that lost their queue file
    crashes, stops, errors, lostAcks

caches == <<keys, creds, isUser>>
registry == <<devices, generated, caches>>
serving == <<svc, req, answer, requests>>
relay == <<queue, hold, pc>>
faults == <<wiped, crashes, stops, errors, lostAcks>>
vars == <<registry, serving, posts, relay, relayed, faults>>

None == 0
Idle == [on |-> "", op |-> "none", name |-> "", ok |-> TRUE, at |-> "idle", err |-> FALSE]
NoAnswer == [status |-> 200, says |-> ""]
Name == Device \cup User

------------------------------------------------------------------------------
Init ==
    /\ devices = {} /\ generated = {}
    /\ keys = [r \in Replica |-> {}]
    /\ creds = [r \in Replica |-> {}]
    /\ isUser = [r \in Replica |-> {}]
    /\ svc = [r \in Replica |-> "up"]
    /\ req = [h \in Handler |-> Idle]
    /\ answer = NoAnswer /\ requests = 0
    /\ posts = <<>>
    /\ queue = [r \in Replica |-> <<>>]
    /\ hold = [r \in Replica |-> None]
    /\ pc = [r \in Replica |-> "loop"]
    /\ relayed = <<>>
    /\ wiped = {} /\ crashes = 0 /\ stops = 0 /\ errors = 0 /\ lostAcks = 0

(* Requests *)

requestSame == UNCHANGED <<svc, requests, posts, relay, relayed>>

NoError == UNCHANGED faults

\* A call of a database returns an error.
Errs ==
    /\ errors + lostAcks < MaxFailures
    /\ errors' = errors + 1
    /\ UNCHANGED <<wiped, crashes, stops, lostAcks>>

Stands(h, op, at) == req[h].op = op /\ req[h].at = at

\* The handler goes on, and remembers whether it met an error.
Goes(h, at) ==
    /\ req' = [req EXCEPT ![h].at = at, ![h].err = @ \/ errors' # errors]
    /\ answer' = NoAnswer

Says(h, status, says) ==
    /\ answer' = [status |-> status, says |-> says]
    /\ req' = [req EXCEPT ![h] = Idle]

Answer(h, status) == Says(h, status, "")

\* A request is in the router and, where there is one, past middleware.Auth.
Request(h, r, op, n, ok) ==
    /\ req[h] = Idle
    /\ svc[r] = "up"
    /\ requests < MaxRequests
    /\ requests' = requests + 1
    /\ req' = [req EXCEPT ![h] =
             [on |-> r, op |-> op, name |-> n, ok |-> ok, at |-> "begun", err |-> FALSE]]
    /\ answer' = NoAnswer
    /\ UNCHANGED <<svc, registry, posts, relay, relayed, faults>>

InsertUnnamed(h) ==                     \* mutant of InsertOne: no GenDeviceID
    /\ Stands(h, "create", "begun")
    /\ devices' = devices \cup {""}
    /\ NoError /\ Goes(h, "inserted")
    /\ requestSame /\ UNCHANGED <<generated, caches>>

\* InsertDevice: InsertOne under a new id, then FindOne of that id.
InsertOne(h) ==
    /\ Stands(h, "create", "begun")
    /\ \E d \in Device \ generated :
        /\ generated' = generated \cup {d}
        /\ \/ /\ devices' = devices \cup {d}
              /\ req' = [req EXCEPT ![h].name = d, ![h].at = "inserted"]
              /\ answer' = NoAnswer /\ NoError
           \/ /\ Errs /\ Answer(h, 500)
              /\ devices' \in {devices, devices \cup {d}}
    /\ requestSame /\ UNCHANGED caches

ReadBack(h) ==
    /\ Stands(h, "create", "inserted")
    /\ \/ NoError /\ Answer(h, IF req[h].name \in devices THEN 201 ELSE 500)
       \/ Errs /\ Answer(h, 500)
    /\ requestSame /\ UNCHANGED registry

DeletesById(h) ==                       \* mutant of DeleteDevice: the id as it is
    /\ Stands(h, "delete", "begun")
    /\ devices' = devices \ {req[h].name}
    /\ NoError /\ Answer(h, 204)
    /\ requestSame /\ UNCHANGED <<generated, caches>>

\* ObjectIDFromHex: no id of a device is 24 hexadecimal digits.
DeleteDevice(h) ==
    /\ Stands(h, "delete", "begun")
    /\ NoError /\ Answer(h, 500)
    /\ requestSame /\ UNCHANGED registry

\* GetDeviceCredentials and GetDevice.  What FindOne found is put into the
\* cache by a later step.
FindCreds(h) ==
    LET r == req[h].on
        d == req[h].name
    IN
    /\ Stands(h, "credentials", "begun")
    /\ \/ d \in creds[r] /\ NoError /\ Goes(h, "cached")
       \/ d \in devices \ creds[r] /\ NoError /\ Goes(h, "found")
       \/ d \notin creds[r] \cup devices /\ NoError /\ Answer(h, 404)
       \/ d \notin creds[r] /\ Errs /\ Answer(h, 404)
    /\ requestSame /\ UNCHANGED registry

CacheCreds(h) ==
    /\ Stands(h, "credentials", "found")
    /\ creds' = [creds EXCEPT ![req[h].on] = @ \cup {req[h].name}]
    /\ NoError /\ Goes(h, "cached")
    /\ requestSame /\ UNCHANGED <<devices, generated, keys, isUser>>

\* The last of these is a CA certificate that cannot be read.
DescribeDevice(h) ==
    /\ Stands(h, "credentials", "cached")
    /\ \/ NoError /\ Answer(h, IF req[h].name \in devices THEN 200 ELSE 404)
       \/ Errs /\ Answer(h, 404)
       \/ NoError /\ Answer(h, 500)
    /\ requestSame /\ UNCHANGED registry

\* GetDeviceKey, for MqttAuth of a post and for UserAuth of a name that is not
\* a user's.
Refuse(h) ==
    IF req[h].op = "post" THEN Answer(h, 401) ELSE Says(h, 200, "deny")

FindKey(h) ==
    LET r == req[h].on
        d == req[h].name
    IN
    /\ Stands(h, "post", "begun") \/ Stands(h, "connect", "device")
    /\ \/ d \in keys[r] /\ NoError /\ Goes(h, "keyed")
       \/ d \in devices \ keys[r] /\ NoError /\ Goes(h, "found")
       \/ d \notin keys[r] \cup devices /\ NoError /\ Refuse(h)
       \/ d \notin keys[r] /\ Errs /\ Refuse(h)
    /\ requestSame /\ UNCHANGED registry

CacheKey(h) ==
    /\ Stands(h, "post", "found") \/ Stands(h, "connect", "found")
    /\ keys' = [keys EXCEPT ![req[h].on] = @ \cup {req[h].name}]
    /\ NoError /\ Goes(h, "keyed")
    /\ requestSame /\ UNCHANGED <<devices, generated, creds, isUser>>

\* MqttAuth refuses a token that was not made with the key, has expired or
\* names another device.
RefuseToken(h) ==
    /\ Stands(h, "post", "keyed")
    /\ ~req[h].ok
    /\ NoError /\ Answer(h, 401)
    /\ requestSame /\ UNCHANGED registry

\* PublishPayload; what EnqueueData could not store is answered "ok!" too.
Post(h, tag, body) ==
    LET r == req[h].on IN
    /\ Stands(h, "post", "keyed")
    /\ req[h].ok
    /\ posts' = Append(posts, [dev |-> req[h].name, tag |-> tag, body |-> body, at |-> r])
    /\ Says(h, 200, "ok!")
    /\ \/ queue' = [queue EXCEPT ![r] = Append(@, Len(posts) + 1)] /\ NoError
       \/ Errs /\ UNCHANGED queue
    /\ UNCHANGED <<svc, requests, registry, hold, pc, relayed>>

------------------------------------------------------------------------------
(* What the broker asks, and logins *)

\* UserAuth: a name that could not be looked up is taken for a device's.
FindUser(h) ==
    /\ Stands(h, "connect", "begun")
    /\ \/ NoError /\ Goes(h, IF req[h].name \in User THEN "user" ELSE "device")
       \/ Errs /\ Goes(h, "device")
    /\ requestSame /\ UNCHANGED registry

\* ValidateLogin looks the user up again.
AdmitUser(h) ==
    /\ Stands(h, "connect", "user")
    /\ \/ NoError /\ Says(h, 200, IF req[h].ok THEN "allow administrator" ELSE "deny")
       \/ Errs /\ Says(h, 200, "deny")
    /\ requestSame /\ UNCHANGED registry

AdmitDevice(h) ==
    /\ Stands(h, "connect", "keyed")
    /\ NoError /\ Says(h, 200, IF req[h].ok THEN "allow" ELSE "deny")
    /\ requestSame /\ UNCHANGED registry

Cached(r) == {e[1] : e \in isUser[r]}
Remember(h, b) ==
    isUser' = [isUser EXCEPT ![req[h].on] =
                  {e \in @ : e[1] # req[h].name} \cup {<<req[h].name, b>>}]

ErrorIsNo(h) ==                         \* mutant of LookUpName: no default case
    /\ Stands(h, "topic", "begun")
    /\ req[h].name \notin Cached(req[h].on)
    /\ \/ NoError /\ Remember(h, req[h].name \in User) /\ Goes(h, "known")
       \/ Errs /\ Remember(h, FALSE) /\ Goes(h, "known")
    /\ requestSame /\ UNCHANGED <<devices, generated, keys, creds>>

\* TopicAuth, when the name is not in the cache; an error is not cached, and
\* the answer is empty.  Users do not change, so it does not matter when in this
\* step the name is looked up.
LookUpName(h) ==
    /\ Stands(h, "topic", "begun")
    /\ req[h].name \notin Cached(req[h].on)
    /\ \/ NoError /\ Remember(h, req[h].name \in User) /\ Goes(h, "known")
       \/ Errs /\ UNCHANGED isUser /\ Says(h, 200, "")
    /\ requestSame /\ UNCHANGED <<devices, generated, keys, creds>>

\* A user may use every topic, any other name those that contain it, which ok
\* says of this one.
AdmitTopic(h) ==
    /\ req[h].op = "topic"
    /\ \E e \in isUser[req[h].on] :
        /\ e[1] = req[h].name
        /\ Says(h, 200, IF e[2] \/ req[h].ok THEN "allow" ELSE "deny")
    /\ NoError /\ requestSame /\ UNCHANGED registry

\* HandleLogin: ValidateLogin, then GetUserByName again, whose error is ignored.
\* UpdateUser, which looks for the id as a string, changes no document.
ValidateLogin(h) ==
    LET right == req[h].name \in User /\ req[h].ok IN
    /\ Stands(h, "login", "begun")
    /\ \/ right /\ NoError /\ Goes(h, "valid")
       \/ ~right /\ NoError /\ Answer(h, 401)
       \/ Errs /\ Answer(h, 401)
    /\ requestSame /\ UNCHANGED registry

\* The token has the role that middleware.Auth asks for, or none.
GenerateJWT(h) ==
    /\ Stands(h, "login", "valid")
    /\ \/ NoError /\ Says(h, 200, "admin")
       \/ Errs /\ Says(h, 200, "")
    /\ requestSame /\ UNCHANGED registry

\* DeleteUser looks for the id as a string, finds no document and answers 204.
DeleteUser(h) ==
    /\ Stands(h, "deleteUser", "begun")
    /\ \/ NoError /\ Answer(h, 204)
       \/ Errs /\ Answer(h, 404)
    /\ requestSame /\ UNCHANGED registry

------------------------------------------------------------------------------
(* The relay: TdmClient.run *)

\* What EnqueueData stores.
Row(m) == <<posts[m].dev>> \o posts[m].tag \o posts[m].body

SplitInThree(m) ==                      \* mutant of Message: strings.Split
    [post |-> m, dev |-> Row(m)[1], tag |-> Row(m)[2], body |-> <<Row(m)[3]>>]

\* The device is what stands before the first slash, the tag what stands
\* before the second, the payload the rest.
Message(m) ==
    [post |-> m, dev |-> Row(m)[1], tag |-> Row(m)[2], body |-> SubSeq(Row(m), 3, Len(Row(m)))]

relaySame == UNCHANGED <<registry, serving, posts>>

PeekOnly(r) ==                          \* mutant of Dequeue: the row stays
    /\ svc[r] # "closing" /\ pc[r] = "loop" /\ queue[r] # <<>>
    /\ hold' = [hold EXCEPT ![r] = Head(queue[r])]
    /\ pc' = [pc EXCEPT ![r] = "publish"]
    /\ relaySame /\ UNCHANGED <<queue, relayed, faults>>

MoreThanOne(r) ==                       \* mutant of Dequeue: qmSize > 1
    /\ svc[r] # "closing" /\ pc[r] = "loop" /\ Len(queue[r]) > 1
    /\ hold' = [hold EXCEPT ![r] = Head(queue[r])]
    /\ queue' = [queue EXCEPT ![r] = Tail(@)]
    /\ pc' = [pc EXCEPT ![r] = "publish"]
    /\ relaySame /\ UNCHANGED <<relayed, faults>>

Dequeue(r) ==
    /\ svc[r] # "closing" /\ pc[r] = "loop" /\ queue[r] # <<>>
    /\ hold' = [hold EXCEPT ![r] = Head(queue[r])]
    /\ queue' = [queue EXCEPT ![r] = Tail(@)]
    /\ pc' = [pc EXCEPT ![r] = "publish"]
    /\ relaySame /\ UNCHANGED <<relayed, faults>>

\* The broker accepts the packet.  If the PUBACK is lost with the connection,
\* the client sends the packet again.
Publish(r) ==
    /\ pc[r] = "publish"
    /\ relayed' = Append(relayed, Message(hold[r]))
    /\ \/ pc' = [pc EXCEPT ![r] = "ack"] /\ UNCHANGED faults
       \/ /\ errors + lostAcks < MaxFailures
          /\ lostAcks' = lostAcks + 1
          /\ UNCHANGED <<pc, wiped, crashes, stops, errors>>
    /\ relaySame /\ UNCHANGED <<queue, hold>>

DropsOnError(r) ==                      \* mutant of PublishFails: gives the row up
    /\ pc[r] = "publish"
    /\ pc' = [pc EXCEPT ![r] = "ack"]
    /\ relaySame /\ UNCHANGED <<queue, hold, relayed, faults>>

\* The token fails: the loop over err never calls Publish again and never ends.
PublishFails(r) ==
    /\ pc[r] = "publish"
    /\ pc' = [pc EXCEPT ![r] = "retry"]
    /\ relaySame /\ UNCHANGED <<queue, hold, relayed, faults>>

Ack(r) ==
    /\ pc[r] = "ack"
    /\ hold' = [hold EXCEPT ![r] = None]
    /\ pc' = [pc EXCEPT ![r] = "loop"]
    /\ relaySame /\ UNCHANGED <<queue, relayed, faults>>

------------------------------------------------------------------------------
(* main: SIGTERM, and the end of a process *)

\* server.Shutdown takes no new connection and waits for the handlers.
Sigterm(r) ==
    /\ svc[r] = "up"
    /\ crashes + stops < MaxEnds
    /\ stops' = stops + 1
    /\ svc' = [svc EXCEPT ![r] = "draining"]
    /\ UNCHANGED <<registry, req, answer, requests, posts, relay, relayed,
                   wiped, crashes, errors, lostAcks>>

\* A handler of the replica has not answered.
Busy(r) == \E h \in Handler : req[h] # Idle /\ req[h].on = r

\* It returns: CloseDB, then the deferred calls: the relay is told to stop, the
\* watcher's context is cancelled, the log channel is closed.
Drained(r) ==
    /\ svc[r] = "draining"
    /\ ~Busy(r)
    /\ svc' = [svc EXCEPT ![r] = "closing"]
    /\ UNCHANGED <<registry, req, answer, requests, posts, relay, relayed, faults>>

\* The process ends and starts again.  A container that is started again has
\* its queue file, a new one has not; a row in hand is not taken again.
Exit(r) ==
    /\ svc' = [svc EXCEPT ![r] = "up"]
    /\ keys' = [keys EXCEPT ![r] = {}]
    /\ creds' = [creds EXCEPT ![r] = {}]
    /\ isUser' = [isUser EXCEPT ![r] = {}]
    /\ req' = [h \in Handler |-> IF req[h].on = r THEN Idle ELSE req[h]]
    /\ \/ queue' = [queue EXCEPT ![r] = <<>>] /\ wiped' = wiped \cup {r}
       \/ UNCHANGED <<queue, wiped>>
    /\ hold' = [hold EXCEPT ![r] = None]
    /\ pc' = [pc EXCEPT ![r] = "loop"]
    /\ UNCHANGED <<devices, generated, answer, requests, posts, relayed, stops, errors, lostAcks>>

Crash(r) ==
    /\ crashes + stops < MaxEnds
    /\ crashes' = crashes + 1
    /\ Exit(r)

\* The handlers took more than the five seconds: Fatal, which ends the process.
ShutdownFails(r) ==
    /\ svc[r] = "draining"
    /\ Busy(r)
    /\ Exit(r) /\ UNCHANGED crashes

\* main returns, or before that the relay or the watcher sends to the closed
\* log channel, which is a panic.
Closed(r) ==
    /\ svc[r] = "closing"
    /\ Exit(r) /\ UNCHANGED crashes

------------------------------------------------------------------------------
Serve(h) ==
    \/ InsertOne(h)
    \/ ReadBack(h)
    \/ DeleteDevice(h)
    \/ FindCreds(h)
    \/ CacheCreds(h)
    \/ DescribeDevice(h)
    \/ FindKey(h)
    \/ CacheKey(h)
    \/ RefuseToken(h)
    \/ \E tag \in Tag, body \in Body : Post(h, tag, body)
    \/ FindUser(h)
    \/ AdmitUser(h)
    \/ AdmitDevice(h)
    \/ LookUpName(h)
    \/ AdmitTopic(h)
    \/ ValidateLogin(h)
    \/ GenerateJWT(h)
    \/ DeleteUser(h)

Relay(r) ==
    \/ Dequeue(r)
    \/ Publish(r)
    \/ PublishFails(r)
    \/ Ack(r)

Arrives(h, r) ==
    \/ \E op \in {"create", "deleteUser"} : Request(h, r, op, "", TRUE)
    \/ \E op \in {"delete", "credentials"}, d \in Device : Request(h, r, op, d, TRUE)
    \/ \E d \in Device, ok \in BOOLEAN : Request(h, r, "post", d, ok)
    \/ \E op \in {"connect", "topic"}, n \in Name, ok \in BOOLEAN : Request(h, r, op, n, ok)
    \/ \E n \in User, ok \in BOOLEAN : Request(h, r, "login", n, ok)

Next ==
    \/ \E h \in Handler :
        \/ \E r \in Replica : Arrives(h, r)
        \/ Serve(h)
    \/ \E r \in Replica :
        \/ Relay(r)
        \/ Sigterm(r)
        \/ Drained(r)
        \/ ShutdownFails(r)
        \/ Closed(r)
        \/ Crash(r)

Spec == Init /\ [][Next]_vars

\* The relay's goroutine is scheduled, with a broker that takes packets when it
\* has a connection; and main returns, which is to say WF_vars(Closed(r)): a
\* replica leaves "closing" by the end of its process only.
FairSpec ==
    /\ Spec
    /\ \A r \in Replica : WF_vars(Relay(r)) /\ []<>(svc[r] # "closing")

------------------------------------------------------------------------------
(* Properties *)

Op == {"none", "create", "delete", "credentials", "post",
       "connect", "topic", "login", "deleteUser"}

TypeOK ==
    /\ devices \subseteq generated /\ generated \subseteq Device
    /\ keys \in [Replica -> SUBSET Device]
    /\ creds \in [Replica -> SUBSET Device]
    /\ isUser \in [Replica -> SUBSET (Name \X BOOLEAN)]
    /\ svc \in [Replica -> {"up", "draining", "closing"}]
    /\ req \in [Handler ->
        [on : Replica \cup {""}, op : Op, name : Name \cup {""}, ok : BOOLEAN, err : BOOLEAN,
         at : {"idle", "begun", "inserted", "found", "cached", "keyed",
               "user", "device", "known", "valid"}]]
    /\ answer \in [status : {200, 201, 204, 401, 404, 500},
                   says : {"", "deny", "allow", "allow administrator", "admin", "ok!"}]
    /\ requests \in 0 .. MaxRequests
    /\ posts \in Seq([dev : Device, tag : Tag, body : Body, at : Replica])
    /\ queue \in [Replica -> Seq(1 .. Len(posts))]
    /\ hold \in [Replica -> 0 .. Len(posts)]
    /\ pc \in [Replica -> {"loop", "publish", "ack", "retry"}]
    /\ \A r \in Replica : (pc[r] = "loop") = (hold[r] = None)
    /\ \A i \in DOMAIN relayed : relayed[i].post \in 1 .. Len(posts)
    /\ wiped \subseteq Replica
    /\ crashes \in Nat /\ stops \in Nat /\ crashes + stops <= MaxEnds
    /\ errors \in Nat /\ lostAcks \in Nat /\ errors + lostAcks <= MaxFailures

\* No replica knows, by its caches or by a request under way, the key of a
\* device that is not registered, or takes a name for what it is not, whichever
\* of its handlers looked it up and in whatever order they store it: nothing
\* invalidates these caches, and they are not stale only because no handler
\* removes a device or changes a user.
CachedIsRegistered ==
    /\ \A r \in Replica :
        /\ keys[r] \cup creds[r] \subseteq devices
        /\ \A e \in isUser[r] : e[2] = (e[1] \in User)
    /\ \A h \in Handler :
        req[h].at \in {"found", "cached", "keyed"} => req[h].name \in devices

\* What the broker, a device that posts, or who logs in, should hear: users
\* connect with their password and use every topic, registered devices connect
\* and post with a token of their own and use topics with their name in it.
Entitled(q) ==
    CASE q.op = "topic" -> IF q.name \in User \/ q.ok THEN "allow" ELSE "deny"
      [] q.op = "login" -> IF q.name \in User /\ q.ok THEN "admin" ELSE ""
      [] q.op = "post" -> IF q.name \in devices /\ q.ok THEN "ok!" ELSE ""
      [] q.op = "connect" /\ ~q.ok -> "deny"
      [] q.op = "connect" /\ q.ok /\ q.name \in User -> "allow administrator"
      [] OTHER -> IF q.name \in devices THEN "allow" ELSE "deny"

Answered(h) ==
    /\ req[h].op \in {"connect", "topic", "login", "post"}
    /\ req'[h] = Idle /\ Serve(h)

\* Every replica's answer is the one that the registry asks for at that moment,
\* except to a request that met an error of MongoDB itself: an error never
\* lasts in a cache (mqttauth.go:89), and a login that is answered 200 with a
\* token that opens nothing (login.go:28) met one.
AnsweredAsRegistered ==
    [][\A h \in Handler : Answered(h) =>
            \/ answer'.says = Entitled(req[h])
            \/ req[h].err \/ errors' # errors]_vars

\* What the broker gets is what a registered device posted, under its own
\* name; the tag and payload are as posted when the tag has no slash.
RelayedAsPosted ==
    \A i \in DOMAIN relayed :
        LET p == posts[relayed[i].post] IN
        /\ relayed[i].dev = p.dev /\ p.dev \in generated
        /\ Len(p.tag) = 1 => <<relayed[i].tag>> = p.tag /\ relayed[i].body = p.body

Delivered == {relayed[i].post : i \in DOMAIN relayed}

\* Posts answered "ok!" that will never be relayed.
Lost ==
    (DOMAIN posts) \ (Delivered \cup UNION {Range(queue[r]) \cup {hold[r]} : r \in Replica})

\* Each error of the queue's file costs one post that was answered "ok!", and
\* each end of a process, a graceful one too, the one in the relay's hands:
\* more is lost only with a queue file.
LostOnlyByFault ==
    Cardinality({m \in Lost : posts[m].at \notin wiped}) <= errors + crashes + stops

\* A replica relays what it was given in that order, and twice only when a
\* PUBACK was lost.
RelayedInOrder ==
    /\ \A i, j \in DOMAIN relayed :
        i < j /\ posts[relayed[i].post].at = posts[relayed[j].post].at =>
            relayed[i].post <= relayed[j].post
    /\ Len(relayed) - Cardinality(Delivered) <= lostAcks

\* Every post that waits is relayed, unless its replica dies or its relay is
\* in the loop that it never leaves.
PostsAreRelayed ==
    \A r \in Replica :
        []<>(queue[r] = <<>> \/ pc[r] = "retry")

\* "assert response.status_code == 204" after the DELETE of a device that was
\* created and read (tests/test_devices.py:46).
DeleteAnswers204 ==
    [][\A h \in Handler :
        Stands(h, "delete", "begun") /\ req[h].name \in devices /\ Serve(h) =>
            answer'.status = 204]_vars
==============================================================================
