-------------------------- MODULE Enrollment_proofs --------------------------
(***************************************************************************)
(* Proofs about Enrollment, for every number of devices, codes and keys.   *)
(***************************************************************************)
EXTENDS Enrollment, TLAPS

Request == [at : RequestAt, code : Code, device : Device, key : Key \ {0}, awaited : BOOLEAN]
Past    == {"inserted", "consumed", "ok"}

(* A request carries the key its device has in its file, until the device  *)
(* is registered; one past the insert carries the registered key.          *)
RequestsCarryKey ==
  \A q \in requests :
    /\ rowKey[q.device] = 0 => q.key = keyFile[q.device]
    /\ q.at \in Past => rowKey[q.device] = q.key
    /\ q.awaited => pc[q.device] = "wait" /\ q.key = keyFile[q.device]

(* A device waits for one request, and only one passes the insert.         *)
OneOfEach ==
  /\ \A q, r \in requests : q.device = r.device /\ q.awaited /\ r.awaited => q = r
  /\ \A q, r \in requests :
       q.device = r.device /\ q.at = "inserted" /\ r.at = "inserted" => q = r
  /\ \A q \in requests, p \in usedBy : q.at = "inserted" => p[2] # q.device

(* What is behind the files: an agent that runs has its key, an enroll     *)
(* command that writes them was accepted, and it is the only one that was. *)
FilesInOrder ==
  /\ \A d \in revoked : rowKey[d] # 0
  /\ \A d \in running : keyFile[d] # 0
  /\ \A d \in Device :
       /\ pc[d] \in {"spki", "id", "marker"} => rowKey[d] # 0 /\ rowKey[d] = keyFile[d]
       /\ pc[d] = "marker" => serverKey[d] = "both"
  /\ \A d \in marker :
       /\ pc[d] \in {"idle", "wait"}
       /\ \A q \in requests : q.device = d /\ q.awaited => q.at \notin Past

IInv ==
  /\ TypeOK
  /\ RegisteredKeyIsHeld /\ MarkerMeansReady /\ ConsumedIsEnrolled /\ OneCodePerDevice
  /\ RequestsCarryKey /\ OneOfEach /\ FilesInOrder

USE KeysAssumption DEF KeysAssumption

LEMMA InitInv == Init => IInv
<1> SUFFICES ASSUME Init PROVE IInv
  OBVIOUS
<1>1. TypeOK
  BY DEF Init, TypeOK, Key
<1>2. RegisteredKeyIsHeld /\ MarkerMeansReady /\ ConsumedIsEnrolled /\ OneCodePerDevice
  BY DEF Init, RegisteredKeyIsHeld, MarkerMeansReady, ConsumedIsEnrolled, OneCodePerDevice
<1>3. RequestsCarryKey /\ OneOfEach /\ FilesInOrder
  BY DEF Init, RequestsCarryKey, OneOfEach, FilesInOrder
<1> QED BY <1>1, <1>2, <1>3 DEF IInv

(* A request that moves is still the same request.                         *)
LEMMA MovesRequest ==
  ASSUME TypeOK, NEW q \in requests, NEW to \in RequestAt, Moves(q, to)
  PROVE  \E m \in Request :
           /\ m.at = to /\ m.code = q.code /\ m.device = q.device /\ m.key = q.key
           /\ m.awaited = q.awaited
           /\ requests' = (requests \ {q}) \cup {m}
           /\ UNCHANGED <<filesVars, running, pc>>
<1> DEFINE m == [q EXCEPT !.at = to]
<1>1. q \in Request
  BY DEF TypeOK, Request
<1>2. m \in Request
  BY <1>1 DEF Request
<1>3. /\ m.at = to /\ m.code = q.code /\ m.device = q.device /\ m.key = q.key
      /\ m.awaited = q.awaited
  BY <1>1 DEF Request
<1>4. requests' = (requests \ {q}) \cup {m} /\ UNCHANGED <<filesVars, running, pc>>
  BY DEF Moves
<1> HIDE DEF m
<1> QED BY <1>2, <1>3, <1>4

(* A request that moves without passing the insert disturbs nothing.       *)
LEMMA MoveInv ==
  ASSUME IInv, NEW q \in requests, NEW to \in RequestAt, Moves(q, to),
         UNCHANGED <<rowKey, revoked>>,
         to \in Past => to # "inserted" /\ q.at \in Past,
         code' \in [Code -> {"none", "unused", "used", "expired"}],
         usedBy' = usedBy \/ (q.at = "inserted" /\ Consumed(q))
  PROVE  IInv'
<1> USE DEF IInv
<1>1. PICK m \in Request :
        /\ m.at = to /\ m.code = q.code /\ m.device = q.device /\ m.key = q.key
        /\ m.awaited = q.awaited
        /\ requests' = (requests \ {q}) \cup {m}
        /\ UNCHANGED <<filesVars, running, pc>>
  BY MovesRequest
<1>2. UNCHANGED <<made, keyFile, torn, serverKey, marker, running, pc, rowKey, revoked>>
  BY <1>1 DEF filesVars
<1>3. q \in Request /\ requests \subseteq Request
  BY DEF TypeOK, Request
<1>4. /\ usedBy' \subseteq Code \X Device
      /\ \A p \in usedBy' : p \in usedBy \/ (p = <<q.code, q.device>> /\ q.at = "inserted")
  BY <1>3 DEF Consumed, TypeOK, Request
<1>5. TypeOK'
  <2>1. requests' \subseteq Request
    BY <1>1, <1>3
  <2> QED BY <1>2, <1>4, <2>1 DEF TypeOK, Request
<1>6. RegisteredKeyIsHeld' /\ MarkerMeansReady'
  BY <1>2 DEF RegisteredKeyIsHeld, MarkerMeansReady
<1>7. ASSUME q.at = "inserted"
      PROVE  rowKey[q.device] # 0 /\ \A p \in usedBy : p[2] # q.device
  BY <1>3, <1>7 DEF RequestsCarryKey, OneOfEach, Past, Request
<1>8. ConsumedIsEnrolled' /\ OneCodePerDevice'
  BY <1>2, <1>4, <1>7 DEF ConsumedIsEnrolled, OneCodePerDevice
<1>9. RequestsCarryKey'
  BY <1>1, <1>2 DEF RequestsCarryKey
<1>10. OneOfEach'
  <2>1. ASSUME NEW r \in requests', NEW s \in requests', r.device = s.device,
               r.awaited, s.awaited
        PROVE  r = s
    BY <1>1, <2>1 DEF OneOfEach
  <2>2. ASSUME NEW r \in requests', r.at = "inserted"
        PROVE  r \in requests /\ r # q
    BY <1>1, <2>2 DEF Past
  <2>3. ASSUME NEW r \in requests', NEW s \in requests', r.device = s.device,
               r.at = "inserted", s.at = "inserted"
        PROVE  r = s
    BY <2>2, <2>3 DEF OneOfEach
  <2>4. ASSUME NEW r \in requests', NEW p \in usedBy', r.at = "inserted"
        PROVE  p[2] # r.device
    <3>1. r \in requests /\ r # q
      BY <2>2, <2>4
    <3>2. CASE p \in usedBy
      BY <2>4, <3>1, <3>2 DEF OneOfEach
    <3>3. CASE p = <<q.code, q.device>> /\ q.at = "inserted"
      BY <2>4, <3>1, <3>3 DEF OneOfEach
    <3> QED BY <1>4, <3>2, <3>3
  <2> QED BY <2>1, <2>3, <2>4 DEF OneOfEach
<1>11. FilesInOrder'
  BY <1>1, <1>2 DEF FilesInOrder
<1> QED BY <1>5, <1>6, <1>8, <1>9, <1>10, <1>11

(* The insert registers the key the device still has.                      *)
LEMMA InsertInv ==
  ASSUME IInv, NEW q \in requests, q.at = "fresh", rowKey[q.device] = 0,
         rowKey' = [rowKey EXCEPT ![q.device] = q.key], Moves(q, "inserted"),
         UNCHANGED <<code, usedBy, revoked>>
  PROVE  IInv'
<1> USE DEF IInv
<1>0. "inserted" \in RequestAt
  BY DEF RequestAt
<1>1. PICK m \in Request :
        /\ m.at = "inserted" /\ m.code = q.code /\ m.device = q.device /\ m.key = q.key
        /\ m.awaited = q.awaited
        /\ requests' = (requests \ {q}) \cup {m}
        /\ UNCHANGED <<filesVars, running, pc>>
  BY <1>0, MovesRequest
<1>2. UNCHANGED <<made, keyFile, torn, serverKey, marker, running, pc>>
  BY <1>1 DEF filesVars
<1>3. q \in Request /\ requests \subseteq Request
  BY DEF TypeOK, Request
<1>4. /\ q.device \in Device /\ q.key \in Key \ {0} /\ q.key = keyFile[q.device]
  BY <1>3 DEF Request, RequestsCarryKey
<1>5. /\ rowKey' \in [Device -> Key] /\ rowKey'[q.device] = q.key
      /\ \A d \in Device : d # q.device => rowKey'[d] = rowKey[d]
  BY <1>4 DEF TypeOK
<1>6. \A r \in requests : r.device \in Device
  BY <1>3 DEF Request
<1>7. TypeOK'
  <2>1. requests' \subseteq Request
    BY <1>1, <1>3
  <2> QED BY <1>2, <1>5, <2>1 DEF TypeOK, Request
<1>8. RegisteredKeyIsHeld' /\ MarkerMeansReady'
  BY <1>2, <1>4, <1>5 DEF RegisteredKeyIsHeld, MarkerMeansReady, TypeOK
<1>9. ConsumedIsEnrolled' /\ OneCodePerDevice'
  <2>1. \A p \in usedBy : p[2] \in Device
    BY DEF TypeOK
  <2> QED BY <1>4, <1>5, <2>1 DEF ConsumedIsEnrolled, OneCodePerDevice
<1>10. RequestsCarryKey'
  <2>1. ASSUME NEW r \in requests, r.at \in Past PROVE r.device # q.device
    <3>1. r.key # 0 /\ rowKey[r.device] = r.key
      BY <1>3, <2>1 DEF RequestsCarryKey, Request
    <3> QED BY <3>1
  <2> SUFFICES ASSUME NEW r \in requests'
               PROVE  /\ rowKey'[r.device] = 0 => r.key = keyFile[r.device]
                      /\ r.at \in Past => rowKey'[r.device] = r.key
                      /\ r.awaited => pc[r.device] = "wait" /\ r.key = keyFile[r.device]
    BY <1>2 DEF RequestsCarryKey
  <2>2. CASE r = m
    BY <1>1, <1>4, <1>5, <2>2 DEF RequestsCarryKey
  <2>3. CASE r \in requests
    BY <1>4, <1>5, <1>6, <2>1, <2>3 DEF RequestsCarryKey
  <2> QED BY <1>1, <2>2, <2>3
<1>11. OneOfEach'
  <2>1. ASSUME NEW r \in requests, r.at = "inserted" PROVE r.device # q.device
    <3>1. r.key # 0 /\ rowKey[r.device] = r.key
      BY <1>3, <2>1 DEF RequestsCarryKey, Request, Past
    <3> QED BY <3>1
  <2>2. ASSUME NEW r \in requests', NEW s \in requests', r.device = s.device,
               r.awaited, s.awaited
        PROVE  r = s
    BY <1>1, <2>2 DEF OneOfEach
  <2>3. ASSUME NEW r \in requests', NEW s \in requests', r.device = s.device,
               r.at = "inserted", s.at = "inserted"
        PROVE  r = s
    BY <1>1, <2>1, <2>3 DEF OneOfEach
  <2>4. ASSUME NEW r \in requests', NEW p \in usedBy, r.at = "inserted"
        PROVE  p[2] # r.device
    BY <1>1, <2>4 DEF OneOfEach, ConsumedIsEnrolled
  <2> QED BY <2>2, <2>3, <2>4 DEF OneOfEach
<1>12. FilesInOrder'
  <2>1. \A d \in marker : d # q.device /\ d \in Device
    BY DEF MarkerMeansReady, TypeOK
  <2>2. \A d \in revoked : d # q.device /\ d \in Device
    BY DEF FilesInOrder, TypeOK
  <2>3. \A d \in Device : pc[d] \in {"spki", "id", "marker"} => d # q.device
    BY DEF FilesInOrder
  <2> QED BY <1>1, <1>2, <1>5, <2>1, <2>2, <2>3 DEF FilesInOrder
<1> QED BY <1>7, <1>8, <1>9, <1>10, <1>11, <1>12

(* Steps of the server.                                                    *)
LEMMA ServeInv ==
  ASSUME IInv, NEW q \in requests, Serve(q)
  PROVE  IInv'
<1> USE DEF IInv
<1>1. \A to \in {"found", "refused", "fresh", "consumed", "ok"} :
        to \in RequestAt /\ to # "inserted" /\ (to \in Past => to \in {"consumed", "ok"})
  BY DEF RequestAt, Past
<1>2. code \in [Code -> {"none", "unused", "used", "expired"}] /\ q \in Request
  BY DEF TypeOK, Request
<1>3. \A to \in {"found", "refused", "fresh"} : to \notin Past
  BY DEF Past
<1>4. ASSUME NEW to \in {"found", "refused", "fresh"}, Moves(q, to), UNCHANGED serverVars
      PROVE  IInv'
  BY <1>1, <1>2, <1>3, <1>4, MoveInv DEF serverVars
<1>5. CASE Lookup(q)
  BY <1>4, <1>5 DEF Lookup
<1>6. CASE CheckDevice(q)
  BY <1>4, <1>6 DEF CheckDevice
<1>7. CASE InsertDevice(q)
  <2>1. CASE Refuse(q)
    BY <1>4, <2>1 DEF Refuse
  <2>2. CASE ~ Refuse(q)
    BY <1>7, <2>2, InsertInv DEF InsertDevice
  <2> QED BY <2>1, <2>2
<1>8. CASE Consume(q)
  <2>1. code' \in [Code -> {"none", "unused", "used", "expired"}]
    BY <1>2, <1>8 DEF Consume, Consumed
  <2>2. /\ q.at = "inserted" /\ Moves(q, "consumed") /\ UNCHANGED <<rowKey, revoked>>
        /\ usedBy' = usedBy \/ (q.at = "inserted" /\ Consumed(q))
    BY <1>8 DEF Consume
  <2>3. q.at \in Past
    BY <2>2 DEF Past
  <2> QED BY <1>1, <2>1, <2>2, <2>3, MoveInv
<1>9. CASE Respond(q)
  <2>1. q.at \in Past /\ UNCHANGED serverVars
    BY <1>9 DEF Respond, Past
  <2>2. CASE Moves(q, "refused")
    BY <1>4, <2>1, <2>2
  <2>3. CASE Moves(q, "ok")
    BY <1>1, <1>2, <2>1, <2>3, MoveInv DEF serverVars
  <2> QED BY <1>9, <2>2, <2>3 DEF Respond
<1>10. CASE RequestLost(q)
  <2>1. /\ requests' \subseteq requests
        /\ UNCHANGED <<code, usedBy, rowKey, revoked, made, keyFile, torn, serverKey, marker,
                       running, pc>>
    BY <1>10 DEF RequestLost, serverVars, filesVars
  <2>2. TypeOK' /\ RequestsCarryKey' /\ OneOfEach' /\ FilesInOrder'
    BY <2>1 DEF TypeOK, RequestsCarryKey, OneOfEach, FilesInOrder
  <2> QED BY <2>1, <2>2 DEF RegisteredKeyIsHeld, MarkerMeansReady, ConsumedIsEnrolled,
             OneCodePerDevice
<1> QED BY <1>5, <1>6, <1>7, <1>8, <1>9, <1>10 DEF Serve

LEMMA CodeInv ==
  ASSUME IInv, NEW c \in Code, IssueCode(c) \/ Expire(c)
  PROVE  IInv'
<1> USE DEF IInv
<1>1. UNCHANGED <<usedBy, rowKey, revoked, requests, made, keyFile, torn, serverKey, marker,
                  running, pc>>
  BY DEF IssueCode, Expire, filesVars
<1>2. code' \in [Code -> {"none", "unused", "used", "expired"}]
  BY DEF IssueCode, Expire, TypeOK
<1>3. TypeOK' /\ RequestsCarryKey' /\ OneOfEach' /\ FilesInOrder'
  BY <1>1, <1>2 DEF TypeOK, RequestsCarryKey, OneOfEach, FilesInOrder
<1> QED BY <1>1, <1>3 DEF RegisteredKeyIsHeld, MarkerMeansReady, ConsumedIsEnrolled,
           OneCodePerDevice

(* A key is made where there is none: then no request of the device is     *)
(* waited for, and none may still be registered.                           *)
LEMMA MakeKeyInv ==
  ASSUME IInv, NEW d \in Device, MakeKey(d)
  PROVE  IInv'
<1> USE DEF IInv
<1>1. UNCHANGED <<code, usedBy, rowKey, revoked, requests, serverKey, marker, running, pc>>
  BY DEF MakeKey, serverVars
<1>2. pc[d] = "idle" /\ keyFile[d] = 0
  BY DEF MakeKey
<1>3. /\ keyFile' \in [Device -> Key] /\ made' \in [Device -> Key] /\ torn' \subseteq Device
      /\ \A e \in Device : e # d => keyFile'[e] = keyFile[e]
  BY DEF MakeKey, TypeOK, Key
<1>4. requests \subseteq Request
  BY DEF TypeOK, Request
<1>5. TypeOK'
  BY <1>1, <1>3 DEF TypeOK
<1>6. RegisteredKeyIsHeld' /\ MarkerMeansReady'
  BY <1>1, <1>2, <1>3 DEF RegisteredKeyIsHeld, MarkerMeansReady, TypeOK
<1>7. ConsumedIsEnrolled' /\ OneCodePerDevice' /\ OneOfEach'
  BY <1>1 DEF ConsumedIsEnrolled, OneCodePerDevice, OneOfEach
<1>8. RequestsCarryKey'
  <2> SUFFICES ASSUME NEW q \in requests
               PROVE  /\ rowKey[q.device] = 0 => q.key = keyFile'[q.device]
                      /\ q.at \in Past => rowKey[q.device] = q.key
                      /\ q.awaited => pc[q.device] = "wait" /\ q.key = keyFile'[q.device]
    BY <1>1 DEF RequestsCarryKey
  <2>1. q.device \in Device /\ q.key # 0
    BY <1>4 DEF Request
  <2>2. CASE q.device = d
    BY <1>2, <2>1, <2>2 DEF RequestsCarryKey
  <2>3. CASE q.device # d
    BY <1>3, <2>1, <2>3 DEF RequestsCarryKey
  <2> QED BY <2>2, <2>3
<1>9. FilesInOrder'
  BY <1>1, <1>2, <1>3 DEF FilesInOrder, TypeOK
<1> QED BY <1>5, <1>6, <1>7, <1>8, <1>9

LEMMA SendInv ==
  ASSUME IInv, NEW d \in Device, NEW c \in Code, SendEnroll(d, c)
  PROVE  IInv'
<1> USE DEF IInv
<1> DEFINE new == [at |-> "sent", code |-> c, device |-> d, key |-> keyFile[d], awaited |-> TRUE]
<1>1. UNCHANGED <<code, usedBy, rowKey, revoked, made, keyFile, torn, serverKey, marker, running>>
  BY DEF SendEnroll, serverVars, filesVars
<1>2. /\ pc[d] = "idle" /\ pc'[d] = "wait"
      /\ pc' \in [Device -> {"idle", "wait", "spki", "id", "marker"}]
      /\ \A e \in Device : e # d => pc'[e] = pc[e]
  BY DEF SendEnroll, TypeOK
<1>3. requests' = requests \cup {new} /\ keyFile[d] # 0
  BY DEF SendEnroll
<1>4. new \in Request /\ requests \subseteq Request
  BY <1>3 DEF TypeOK, Request, RequestAt
<1>5. new.at = "sent" /\ new.device = d /\ new.key = keyFile[d] /\ new.awaited
  OBVIOUS
<1> HIDE DEF new
<1>6. \A q \in requests : q.device \in Device /\ (q.awaited => q.device # d)
  BY <1>2, <1>4 DEF RequestsCarryKey, Request
<1>7. TypeOK'
  <2>1. requests' \subseteq Request
    BY <1>3, <1>4
  <2> QED BY <1>1, <1>2, <2>1 DEF TypeOK, Request
<1>8. /\ RegisteredKeyIsHeld' /\ MarkerMeansReady' /\ ConsumedIsEnrolled' /\ OneCodePerDevice'
  BY <1>1 DEF RegisteredKeyIsHeld, MarkerMeansReady, ConsumedIsEnrolled, OneCodePerDevice
<1>9. RequestsCarryKey'
  BY <1>1, <1>2, <1>3, <1>5, <1>6 DEF RequestsCarryKey, Past
<1>10. OneOfEach'
  BY <1>1, <1>3, <1>5, <1>6 DEF OneOfEach
<1>11. FilesInOrder'
  BY <1>1, <1>2, <1>3, <1>5 DEF FilesInOrder, TypeOK, Past
<1> QED BY <1>7, <1>8, <1>9, <1>10, <1>11

(* The answer ends the wait; 200 means that the device is registered.      *)
LEMMA AnsweredInv ==
  ASSUME IInv, NEW d \in Device, Accepted(d) \/ Refused(d)
  PROVE  IInv'
<1> USE DEF IInv
<1>1. PICK q \in Awaited(d) :
        /\ requests' = requests \ {q}
        /\ \/ q.at = "ok" /\ pc' = [pc EXCEPT ![d] = "spki"]
           \/ pc' = [pc EXCEPT ![d] = "idle"]
  BY DEF Accepted, Refused, Answered
<1>2. /\ UNCHANGED <<code, usedBy, rowKey, revoked, made, keyFile, torn, serverKey, marker,
                     running>>
      /\ pc[d] = "wait"
  BY DEF Accepted, Refused, Answered, serverVars, filesVars
<1>3. /\ q \in requests /\ q.device = d /\ q.awaited
      /\ requests \subseteq Request
      /\ \A r \in requests : r.device \in Device
  BY DEF Awaited, TypeOK, Request
<1>4. /\ pc' \in [Device -> {"idle", "wait", "spki", "id", "marker"}]
      /\ \A e \in Device : e # d => pc'[e] = pc[e]
      /\ pc'[d] = "idle" \/ (pc'[d] = "spki" /\ q.at = "ok")
  BY <1>1 DEF TypeOK
<1>5. TypeOK'
  BY <1>1, <1>2, <1>4 DEF TypeOK
<1>6. /\ RegisteredKeyIsHeld' /\ MarkerMeansReady' /\ ConsumedIsEnrolled' /\ OneCodePerDevice'
  BY <1>2 DEF RegisteredKeyIsHeld, MarkerMeansReady, ConsumedIsEnrolled, OneCodePerDevice
<1>7. \A r \in requests' : r \in requests /\ (r.awaited => r.device # d)
  BY <1>1, <1>3 DEF OneOfEach
<1>8. RequestsCarryKey' /\ OneOfEach'
  BY <1>2, <1>3, <1>4, <1>7 DEF RequestsCarryKey, OneOfEach
<1>9. pc'[d] = "spki" => rowKey[d] # 0 /\ rowKey[d] = keyFile[d] /\ d \notin marker
  <2> SUFFICES ASSUME pc'[d] = "spki"
               PROVE  rowKey[d] # 0 /\ rowKey[d] = keyFile[d] /\ d \notin marker
    OBVIOUS
  <2>1. q.at \in Past /\ q.key # 0
    BY <1>3, <1>4 DEF Past, Request
  <2> QED BY <1>3, <2>1 DEF RequestsCarryKey, FilesInOrder
<1>10. FilesInOrder'
  <2>1. /\ \A e \in revoked : rowKey[e] # 0
        /\ \A e \in running : keyFile[e] # 0
    BY DEF FilesInOrder
  <2>2. \A e \in Device :
          /\ pc'[e] \in {"spki", "id", "marker"} => rowKey[e] # 0 /\ rowKey[e] = keyFile[e]
          /\ pc'[e] = "marker" => serverKey[e] = "both"
    BY <1>4, <1>9 DEF FilesInOrder
  <2>3. \A e \in marker :
          /\ pc'[e] \in {"idle", "wait"}
          /\ \A r \in requests' : r.device = e /\ r.awaited => r.at \notin Past
    BY <1>4, <1>7, <1>9 DEF FilesInOrder, TypeOK
  <2> QED BY <1>2, <2>1, <2>2, <2>3 DEF FilesInOrder
<1> QED BY <1>5, <1>6, <1>8, <1>10

(* The three files.                                                        *)
LEMMA WriteInv ==
  ASSUME IInv, NEW d \in Device, WriteSpki(d) \/ WriteId(d) \/ WriteMarker(d)
  PROVE  IInv'
<1> USE DEF IInv
<1>1. UNCHANGED <<code, usedBy, rowKey, revoked, requests, made, keyFile, torn, running>>
  BY DEF WriteSpki, WriteId, WriteMarker, serverVars
<1>2. /\ pc[d] \in {"spki", "id", "marker"}
      /\ pc' \in [Device -> {"idle", "wait", "spki", "id", "marker"}]
      /\ serverKey' \in [Device -> {"none", "spki", "both"}]
      /\ marker' \subseteq Device
      /\ \A e \in Device : e # d => pc'[e] = pc[e] /\ serverKey'[e] = serverKey[e]
      /\ \A e \in marker' : e \in marker \/ e = d
  BY DEF WriteSpki, WriteId, WriteMarker, TypeOK
<1>3. /\ rowKey[d] # 0 /\ rowKey[d] = keyFile[d] /\ d \notin marker
      /\ pc'[d] # "wait"
      /\ pc'[d] = "marker" => serverKey'[d] = "both"
      /\ d \in marker' => serverKey'[d] = "both" /\ pc'[d] = "idle"
  BY <1>2 DEF WriteSpki, WriteId, WriteMarker, TypeOK, FilesInOrder
<1>4. \A q \in requests : q.device \in Device /\ (q.awaited => q.device # d)
  BY <1>2 DEF RequestsCarryKey, TypeOK
<1>5. TypeOK'
  BY <1>1, <1>2 DEF TypeOK
<1>6. RegisteredKeyIsHeld' /\ ConsumedIsEnrolled' /\ OneCodePerDevice' /\ OneOfEach'
  BY <1>1 DEF RegisteredKeyIsHeld, ConsumedIsEnrolled, OneCodePerDevice, OneOfEach
<1>7. MarkerMeansReady'
  BY <1>1, <1>2, <1>3 DEF MarkerMeansReady, TypeOK
<1>8. RequestsCarryKey'
  BY <1>1, <1>2, <1>4 DEF RequestsCarryKey
<1>9. FilesInOrder'
  <2>1. /\ \A e \in revoked : rowKey[e] # 0
        /\ \A e \in running : keyFile[e] # 0
    BY DEF FilesInOrder
  <2>2. \A e \in Device :
          /\ pc'[e] \in {"spki", "id", "marker"} => rowKey[e] # 0 /\ rowKey[e] = keyFile[e]
          /\ pc'[e] = "marker" => serverKey'[e] = "both"
    BY <1>2, <1>3 DEF FilesInOrder
  <2>3. \A e \in marker' :
          /\ pc'[e] \in {"idle", "wait"}
          /\ \A r \in requests : r.device = e /\ r.awaited => r.at \notin Past
    BY <1>2, <1>3, <1>4 DEF FilesInOrder
  <2> QED BY <1>1, <2>1, <2>2, <2>3 DEF FilesInOrder
<1> QED BY <1>5, <1>6, <1>7, <1>8, <1>9

(* A command that gives up leaves its request on its own.                  *)
LEMMA EndsInv ==
  ASSUME IInv, NEW d \in Device, EnrollEnds(d)
  PROVE  IInv'
<1> USE DEF IInv
<1> DEFINE Left(q) == [q EXCEPT !.awaited = FALSE]
<1>1. UNCHANGED <<code, usedBy, rowKey, revoked, made, keyFile, torn, serverKey, marker, running>>
  BY DEF EnrollEnds, serverVars, filesVars
<1>2. /\ pc'[d] = "idle"
      /\ pc' \in [Device -> {"idle", "wait", "spki", "id", "marker"}]
      /\ \A e \in Device : e # d => pc'[e] = pc[e]
  BY DEF EnrollEnds, TypeOK
<1>3. requests' = (requests \ Awaited(d)) \cup {Left(q) : q \in Awaited(d)}
  BY DEF EnrollEnds
<1>4. requests \subseteq Request
  BY DEF TypeOK, Request
<1>5. ASSUME NEW q \in Request
      PROVE  /\ Left(q) \in Request
             /\ Left(q).at = q.at /\ Left(q).code = q.code /\ Left(q).device = q.device
             /\ Left(q).key = q.key /\ ~Left(q).awaited
  BY DEF Request
<1> HIDE DEF Left
<1>6. ASSUME NEW r \in requests'
      PROVE  \/ r \in requests /\ (r.awaited => r.device # d)
             \/ \E q \in requests : r = Left(q) /\ q.device = d /\ q.awaited
  BY <1>3 DEF Awaited
<1>7. ASSUME NEW r \in requests'
      PROVE  /\ r \in Request
             /\ r.awaited => r \in requests /\ r.device # d
             /\ \E q \in requests : /\ q.at = r.at /\ q.device = r.device /\ q.key = r.key
                                    /\ r = q \/ (r = Left(q) /\ q.awaited)
                                    /\ r = q => (q.awaited => q.device # d)
                                    /\ r # q => q.device = d
  <2>1. CASE r \in requests /\ (r.awaited => r.device # d)
    BY <1>4, <2>1
  <2>2. ASSUME NEW q \in requests, r = Left(q), q.device = d, q.awaited
        PROVE  /\ r \in Request
               /\ r.at = q.at /\ r.device = q.device /\ r.key = q.key /\ ~r.awaited
    BY <1>4, <1>5, <2>2
  <2> QED BY <1>6, <2>1, <2>2
<1>8. TypeOK'
  <2>1. requests' \subseteq Request
    BY <1>7
  <2> QED BY <1>1, <1>2, <2>1 DEF TypeOK, Request
<1>9. /\ RegisteredKeyIsHeld' /\ MarkerMeansReady' /\ ConsumedIsEnrolled' /\ OneCodePerDevice'
  BY <1>1 DEF RegisteredKeyIsHeld, MarkerMeansReady, ConsumedIsEnrolled, OneCodePerDevice
<1>10. RequestsCarryKey'
  <2> SUFFICES ASSUME NEW r \in requests'
               PROVE  /\ rowKey[r.device] = 0 => r.key = keyFile[r.device]
                      /\ r.at \in Past => rowKey[r.device] = r.key
                      /\ r.awaited => pc'[r.device] = "wait" /\ r.key = keyFile[r.device]
    BY <1>1 DEF RequestsCarryKey
  <2>1. PICK q \in requests : q.at = r.at /\ q.device = r.device /\ q.key = r.key
    BY <1>7
  <2>2. r.awaited => r \in requests /\ r.device # d /\ r.device \in Device
    BY <1>4, <1>7 DEF Request
  <2> QED BY <1>2, <2>1, <2>2 DEF RequestsCarryKey
<1>11. OneOfEach'
  <2>1. ASSUME NEW r \in requests', NEW s \in requests', r.device = s.device,
               r.awaited, s.awaited
        PROVE  r = s
    BY <1>7, <2>1 DEF OneOfEach
  <2>2. ASSUME NEW r \in requests', NEW s \in requests', r.device = s.device,
               r.at = "inserted", s.at = "inserted"
        PROVE  r = s
    <3>1. PICK q \in requests : /\ q.at = "inserted" /\ q.device = r.device
                                /\ r = q \/ (r = Left(q) /\ q.awaited)
                                /\ r = q => (q.awaited => q.device # d)
                                /\ r # q => q.device = d
      BY <1>7, <2>2
    <3>2. PICK p \in requests : /\ p.at = "inserted" /\ p.device = s.device
                                /\ s = p \/ (s = Left(p) /\ p.awaited)
                                /\ s = p => (p.awaited => p.device # d)
                                /\ s # p => p.device = d
      BY <1>7, <2>2
    <3>3. p = q
      BY <2>2, <3>1, <3>2 DEF OneOfEach
    <3> QED BY <3>1, <3>2, <3>3
  <2>3. ASSUME NEW r \in requests', NEW p \in usedBy, r.at = "inserted"
        PROVE  p[2] # r.device
    BY <1>7, <2>3 DEF OneOfEach
  <2> QED BY <1>1, <2>1, <2>2, <2>3 DEF OneOfEach
<1>12. FilesInOrder'
  <2>1. /\ \A e \in revoked : rowKey[e] # 0
        /\ \A e \in running : keyFile[e] # 0
    BY DEF FilesInOrder
  <2>2. \A e \in Device :
          /\ pc'[e] \in {"spki", "id", "marker"} => rowKey[e] # 0 /\ rowKey[e] = keyFile[e]
          /\ pc'[e] = "marker" => serverKey[e] = "both"
    BY <1>2 DEF FilesInOrder
  <2>3. \A e \in marker :
          /\ pc'[e] \in {"idle", "wait"}
          /\ \A r \in requests' : r.device = e /\ r.awaited => r.at \notin Past
    BY <1>2, <1>7 DEF FilesInOrder, TypeOK
  <2> QED BY <1>1, <2>1, <2>2, <2>3 DEF FilesInOrder
<1> QED BY <1>8, <1>9, <1>10, <1>11, <1>12

LEMMA RunInv ==
  ASSUME IInv, NEW d \in Device, Run(d)
  PROVE  IInv'
<1> USE DEF IInv
<1>1. /\ UNCHANGED <<code, usedBy, rowKey, revoked, requests, made, keyFile, torn, serverKey,
                     marker, pc>>
      /\ keyFile[d] # 0 /\ running' = running \cup {d}
  BY DEF Run, serverVars, filesVars
<1>2. TypeOK' /\ RequestsCarryKey' /\ OneOfEach' /\ FilesInOrder'
  BY <1>1 DEF TypeOK, RequestsCarryKey, OneOfEach, FilesInOrder
<1> QED BY <1>1, <1>2 DEF RegisteredKeyIsHeld, MarkerMeansReady, ConsumedIsEnrolled,
           OneCodePerDevice

(* The wipe takes the key of a registered device: it stays registered, so  *)
(* no request can register a key it no longer has.                         *)
LEMMA RevokeInv ==
  ASSUME IInv, NEW d \in Device, Revoke(d)
  PROVE  IInv'
<1> USE DEF IInv
<1>1. UNCHANGED <<code, usedBy, rowKey, requests, made, torn, pc>>
  BY DEF Revoke
<1>2. /\ pc[d] = "idle" /\ rowKey[d] # 0
      /\ marker' = marker \ {d} /\ running' = running \ {d} /\ revoked' = revoked \cup {d}
  BY DEF Revoke, FilesInOrder
<1>3. /\ keyFile' \in [Device -> Key] /\ serverKey' \in [Device -> {"none", "spki", "both"}]
      /\ \A e \in Device : e # d => keyFile'[e] = keyFile[e] /\ serverKey'[e] = serverKey[e]
  BY DEF Revoke, TypeOK, Key
<1>4. \A q \in requests : q.device \in Device /\ (q.awaited => q.device # d)
  BY <1>2 DEF RequestsCarryKey, TypeOK
<1>5. TypeOK'
  BY <1>1, <1>2, <1>3 DEF TypeOK
<1>6. RegisteredKeyIsHeld' /\ ConsumedIsEnrolled' /\ OneCodePerDevice' /\ OneOfEach'
  BY <1>1, <1>2, <1>3 DEF RegisteredKeyIsHeld, ConsumedIsEnrolled, OneCodePerDevice, OneOfEach
<1>7. MarkerMeansReady'
  BY <1>1, <1>2, <1>3 DEF MarkerMeansReady, TypeOK
<1>8. RequestsCarryKey'
  BY <1>1, <1>2, <1>3, <1>4 DEF RequestsCarryKey
<1>9. FilesInOrder'
  BY <1>1, <1>2, <1>3 DEF FilesInOrder, TypeOK
<1> QED BY <1>5, <1>6, <1>7, <1>8, <1>9

LEMMA NextInv == IInv /\ [Next]_vars => IInv'
<1> SUFFICES ASSUME IInv, [Next]_vars PROVE IInv'
  OBVIOUS
<1>1. CASE UNCHANGED vars
  BY <1>1 DEF vars, IInv, TypeOK, RegisteredKeyIsHeld, MarkerMeansReady, ConsumedIsEnrolled,
     OneCodePerDevice, RequestsCarryKey, OneOfEach, FilesInOrder
<1>2. CASE Next
  BY <1>2, ServeInv, CodeInv, MakeKeyInv, SendInv, AnsweredInv, WriteInv, EndsInv, RunInv,
     RevokeInv DEF Next
<1> QED BY <1>1, <1>2

LEMMA Invariance == Spec => []IInv
BY InitInv, NextInv, PTL DEF Spec

(* Every variable of the enrollment keeps its type.                        *)
THEOREM TypesHold == Spec => []TypeOK
<1>1. IInv => TypeOK
  BY DEF IInv
<1> QED BY <1>1, Invariance, PTL

(* What is registered for a device is the key it holds, until revoke wipes *)
(* it, whatever crashes, lost answers and retries came before.             *)
THEOREM KeyIsHeld == Spec => []RegisteredKeyIsHeld
<1>1. IInv => RegisteredKeyIsHeld
  BY DEF IInv
<1> QED BY <1>1, Invariance, PTL

(* The `enrolled` marker is never ahead of what it stands for.             *)
THEOREM MarkerIsReady == Spec => []MarkerMeansReady
<1>1. IInv => MarkerMeansReady
  BY DEF IInv
<1> QED BY <1>1, Invariance, PTL

(* A consumed code names a registered device.                              *)
THEOREM NoCodeIsBurnt == Spec => []ConsumedIsEnrolled
<1>1. IInv => ConsumedIsEnrolled
  BY DEF IInv
<1> QED BY <1>1, Invariance, PTL

(* A device consumes one code, however many of its requests overlap.       *)
THEOREM OneCode == Spec => []OneCodePerDevice
<1>1. IInv => OneCodePerDevice
  BY DEF IInv
<1> QED BY <1>1, Invariance, PTL
=============================================================================
