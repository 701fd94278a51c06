-------------------------- MODULE PluginLifeProofs --------------------------
(* Proofs about PluginLife, for any hosts, addresses, handles and lengths. *)
EXTENDS PluginLife, TLAPS

(* The objects of both libraries: what one action does to the static       *)
(* pointer, the heap and the pointers of the hosts.                        *)
ObjectsInv == StaticIsLive /\ NothingForgotten

ObjectsOK ==
  /\ instance \in [Libraries -> Objects \union {NULL}]
  /\ heap \in [Libraries -> SUBSET Objects]
  /\ held \in [Libraries -> [Hosts -> Objects \union {NULL}]]
  /\ bypassed \in BOOLEAN

(* A new object is alone in memory, since there was no instance.           *)
LEMMA InstantiateKeepsObjects ==
  ASSUME ObjectsOK, ObjectsInv, NEW l \in Libraries, NEW h \in Hosts,
         Instantiate(l, h)
  PROVE  /\ ObjectsOK' /\ ObjectsInv'
         /\ \A k \in Libraries \ {l} : held'[k] = held[k]
  <1> USE HeapAssumption
  <1>1. CASE instance[l] = NULL
    <2>1. PICK o \in Objects :
            /\ instance' = [instance EXCEPT ![l] = o]
            /\ heap' = [heap EXCEPT ![l] = @ \union {o}]
            /\ held' = [held EXCEPT ![l][h] = o]
            /\ bypassed' = bypassed
      BY <1>1 DEF Instantiate
    <2>2. ObjectsOK' /\ \A k \in Libraries \ {l} : held'[k] = held[k]
      BY <2>1 DEF ObjectsOK
    <2>3. instance'[l] = o /\ heap'[l] = heap[l] \union {o}
      BY <2>1 DEF ObjectsOK
    <2>4. heap'[l] = {o}
      <3>1. heap[l] \subseteq {NULL} /\ NULL \notin heap[l]
        BY <1>1 DEF ObjectsInv, NothingForgotten, ObjectsOK
      <3> QED BY <2>3, <3>1
    <2>5. \A k \in Libraries \ {l} : instance'[k] = instance[k] /\ heap'[k] = heap[k]
      BY <2>1 DEF ObjectsOK
    <2>6. StaticIsLive'
      BY <2>1, <2>3, <2>4, <2>5 DEF ObjectsInv, StaticIsLive
    <2>7. NothingForgotten'
      BY <2>3, <2>4, <2>5 DEF ObjectsInv, NothingForgotten
    <2> QED BY <2>2, <2>6, <2>7 DEF ObjectsInv
  <1>2. CASE instance[l] # NULL
    <2>1. /\ UNCHANGED <<instance, heap, bypassed>>
          /\ held' = [held EXCEPT ![l][h] = instance[l]]
      BY <1>2 DEF Instantiate
    <2> QED BY <2>1 DEF ObjectsOK, ObjectsInv, StaticIsLive, NothingForgotten
  <1> QED BY <1>1, <1>2

(* Deleting through any pointer, dangling or not: when it is the instance, *)
(* nothing is left in memory; otherwise the instance is not touched.       *)
LEMMA DeleteKeepsObjects ==
  ASSUME ObjectsOK, ObjectsInv, NEW l \in Libraries, NEW h \in Hosts,
         held[l][h] # NULL, Delete(l, h)
  PROVE  ObjectsOK' /\ ObjectsInv'
  <1> USE HeapAssumption
  <1>1. /\ heap'[l] = heap[l] \ {held[l][h]}
        /\ instance'[l] = IF instance[l] = held[l][h] THEN NULL ELSE instance[l]
        /\ \A k \in Libraries \ {l} : instance'[k] = instance[k] /\ heap'[k] = heap[k]
        /\ ObjectsOK' /\ bypassed' = bypassed
    BY DEF Delete, ObjectsOK
  <1>2. instance'[l] # NULL => instance'[l] = instance[l] /\ instance[l] # held[l][h]
    BY <1>1
  <1>3. StaticIsLive'
    BY <1>1, <1>2 DEF ObjectsInv, StaticIsLive
  <1>4. heap'[l] \subseteq {instance'[l]}
    BY <1>1 DEF ObjectsInv, NothingForgotten
  <1>5. NothingForgotten'
    BY <1>1, <1>4 DEF ObjectsInv, NothingForgotten
  <1> QED BY <1>1, <1>3, <1>5 DEF ObjectsInv

LEMMA DeletePluginKeepsObjects ==
  ASSUME ObjectsOK, ObjectsInv, NEW h \in Hosts, DeletePlugin(h)
  PROVE  ObjectsOK' /\ ObjectsInv'
  <1> "drm" \in Libraries /\ "crypto" \in Libraries
    BY DEF Libraries
  <1>1. /\ ObjectsOK' /\ bypassed' = TRUE /\ instance' = instance
        /\ heap'["crypto"] \subseteq heap["crypto"]
        /\ heap'["drm"] = heap["drm"]
    BY DEF DeletePlugin, ObjectsOK
  <1>2. StaticIsLive'
    BY <1>1 DEF ObjectsInv, StaticIsLive, Libraries
  <1>3. NothingForgotten'
    BY <1>1 DEF ObjectsInv, NothingForgotten, Libraries
  <1> QED BY <1>1, <1>2, <1>3 DEF ObjectsInv

(* What is left of the invariant when the objects are set aside.           *)
DataOK ==
  /\ filled \in SUBSET RefMaps /\ mapInitialized \in BOOLEAN
  /\ inited \in BOOLEAN /\ conn \in Handles \union {NULL}
  /\ opened \in SUBSET Handles /\ calling \in BOOLEAN
  /\ passthru \in BOOLEAN /\ session \in SUBSET Hosts

DecryptOK ==
  /\ buf \in [Hosts -> Buffer \union {NULL}]
  /\ last \in [Hosts -> [answer : {"none", "ok", "unknown"},
                         sample : 0..MaxSample, written : 0..MaxSample,
                         emptied : BOOLEAN]]

DecryptInv == DecryptOK /\ WritesFit /\ RoomUntilEmptied /\ OkMeansCopied

LEMMA InvParts ==
  LifeInv <=> /\ ObjectsOK /\ ObjectsInv /\ DataOK /\ DecryptInv
              /\ MapsFilled /\ ConnectionOfCall
  BY DEF LifeInv, TypeOK, ObjectsOK, ObjectsInv, DataOK, DecryptInv, DecryptOK

LEMMA DecryptKeepsInv ==
  ASSUME DecryptInv, NEW h \in Hosts, onDecrypt(h)
  PROVE  DecryptInv'
  <1> USE HeapAssumption
  <1> DEFINE Called(answer, n, written) ==
        last' = [last EXCEPT ![h] =
          [answer |-> answer, sample |-> n, written |-> written,
           emptied |-> @.emptied \/ n = 0]]
  <1>1. PICK n \in 0..MaxSample :
          \/ /\ Fits(h, n)
             /\ buf' = [buf EXCEPT ![h] = [capacity |-> buf[h].capacity, length |-> n]]
             /\ Called("ok", n, n)
          \/ HasRoom(h) /\ ~Fits(h, n) /\ Called("unknown", n, 0) /\ buf' = buf
          \/ ~HasRoom(h) /\ Called("ok", n, 0) /\ buf' = buf
    BY DEF onDecrypt, LengthAfter
  <1>2. \A g \in Hosts \ {h} : buf'[g] = buf[g] /\ last'[g] = last[g]
    BY <1>1 DEF DecryptInv, DecryptOK
  <1>3. CASE Fits(h, n) /\ buf' = [buf EXCEPT ![h] = [capacity |-> buf[h].capacity, length |-> n]]
             /\ Called("ok", n, n)
    <2>1. /\ buf[h] \in Buffer /\ buf[h].length >= n
          /\ buf[h].length <= buf[h].capacity
      BY <1>3 DEF Fits, HasRoom, DecryptInv, DecryptOK, WritesFit
    <2>2. /\ buf'[h] = [capacity |-> buf[h].capacity, length |-> n]
          /\ last'[h] = [answer |-> "ok", sample |-> n, written |-> n,
                         emptied |-> last[h].emptied \/ n = 0]
      BY <1>3 DEF DecryptInv, DecryptOK
    <2>3. /\ buf'[h] \in Buffer
          /\ buf'[h].capacity = buf[h].capacity /\ buf'[h].length = n
      BY <2>1, <2>2 DEF Buffer
    <2>4. DecryptOK'
      BY <1>3, <2>3 DEF DecryptInv, DecryptOK
    <2>5. n \in Nat /\ buf[h].length \in Nat /\ buf[h].capacity \in Nat
      BY <2>1 DEF Buffer
    <2>6. last'[h].written <= buf'[h].capacity /\ buf'[h].length <= buf'[h].capacity
      BY <2>1, <2>2, <2>3, <2>5
    <2>7. last'[h].emptied = (last[h].emptied \/ n = 0)
      BY <2>2
    <2>8. ~last'[h].emptied => buf'[h].length > 0
      <3>1. ~last'[h].emptied => n # 0
        BY <2>7, Zenon
      <3> QED BY <2>3, <2>5, <3>1
    <2>9. last'[h].written = last'[h].sample
      BY <2>2
    <2>10. WritesFit'
      BY <1>2, <2>6 DEF DecryptInv, WritesFit
    <2>11. RoomUntilEmptied'
      BY <1>2, <2>8 DEF DecryptInv, RoomUntilEmptied
    <2>12. OkMeansCopied'
      BY <1>2, <2>9 DEF DecryptInv, OkMeansCopied
    <2> QED BY <2>4, <2>10, <2>11, <2>12 DEF DecryptInv
  <1>4. CASE HasRoom(h) /\ ~Fits(h, n) /\ Called("unknown", n, 0) /\ buf' = buf
    <2>1. last'[h] = [answer |-> "unknown", sample |-> n, written |-> 0,
                      emptied |-> last[h].emptied \/ n = 0]
      BY <1>4 DEF DecryptInv, DecryptOK
    <2>2. DecryptOK'
      BY <1>4 DEF DecryptInv, DecryptOK
    <2>3. buf[h] \in Buffer /\ buf[h].capacity \in Nat
      BY <1>4 DEF HasRoom, DecryptInv, DecryptOK, Buffer
    <2>4. /\ last'[h].answer # "ok" /\ last'[h].written = 0
          /\ ~last'[h].emptied => ~last[h].emptied
      <3>1. last'[h].emptied = (last[h].emptied \/ n = 0)
        BY <2>1
      <3>2. ~last'[h].emptied => ~last[h].emptied
        BY <3>1, Zenon
      <3> QED BY <2>1, <3>2
    <2>5. WritesFit'
      BY <1>2, <1>4, <2>3, <2>4 DEF DecryptInv, WritesFit
    <2>6. RoomUntilEmptied'
      BY <1>2, <1>4, <2>4 DEF DecryptInv, RoomUntilEmptied
    <2>7. OkMeansCopied'
      BY <1>2, <1>4, <2>4 DEF DecryptInv, OkMeansCopied
    <2> QED BY <2>2, <2>5, <2>6, <2>7 DEF DecryptInv
  <1>5. CASE ~HasRoom(h) /\ Called("ok", n, 0) /\ buf' = buf
    <2>1. last'[h] = [answer |-> "ok", sample |-> n, written |-> 0,
                      emptied |-> last[h].emptied \/ n = 0]
      BY <1>5 DEF DecryptInv, DecryptOK
    <2>2. DecryptOK'
      BY <1>5 DEF DecryptInv, DecryptOK
    <2>3. last'[h].written = 0 /\ (~last'[h].emptied => ~last[h].emptied)
      <3>1. last'[h].emptied = (last[h].emptied \/ n = 0)
        BY <2>1
      <3>2. ~last'[h].emptied => ~last[h].emptied
        BY <3>1, Zenon
      <3> QED BY <2>1, <3>2
    <2>4. buf[h] # NULL => buf[h].capacity \in Nat
      BY DEF DecryptInv, DecryptOK, Buffer
    <2>5. buf[h] # NULL => ~(buf[h].length > 0)
      BY <1>5 DEF HasRoom
    <2>6. ~(buf[h] # NULL /\ buf[h].capacity > 0 /\ ~last'[h].emptied)
      BY <2>3, <2>5 DEF DecryptInv, RoomUntilEmptied
    <2>7. WritesFit'
      BY <1>2, <1>5, <2>3, <2>4 DEF DecryptInv, WritesFit
    <2>8. RoomUntilEmptied'
      BY <1>2, <1>5, <2>6 DEF DecryptInv, RoomUntilEmptied
    <2>9. OkMeansCopied'
      BY <1>2, <1>5, <2>6 DEF DecryptInv, OkMeansCopied
    <2> QED BY <2>2, <2>7, <2>8, <2>9 DEF DecryptInv
  <1> QED BY <1>1, <1>3, <1>4, <1>5

LEMMA NewBufferKeepsInv ==
  ASSUME DecryptInv, NEW h \in Hosts, NewBuffer(h)
  PROVE  DecryptInv'
  <1> USE HeapAssumption
  <1>1. last' = [last EXCEPT ![h] = NoCall]
    BY DEF NewBuffer
  <1>2. last'[h] = NoCall /\ \A g \in Hosts \ {h} : last'[g] = last[g]
    BY <1>1 DEF DecryptInv, DecryptOK
  <1>3. PICK b \in Buffer \union {NULL} :
          /\ buf' = [buf EXCEPT ![h] = b]
          /\ b # NULL => b.length = b.capacity /\ b.capacity \in 0..MaxBuffer
    BY DEF NewBuffer, Buffer
  <1>4. buf'[h] = b /\ \A g \in Hosts \ {h} : buf'[g] = buf[g]
    BY <1>3 DEF DecryptInv, DecryptOK
  <1>5. DecryptOK'
    BY <1>1, <1>3 DEF DecryptInv, DecryptOK, NoCall
  <1>6. /\ last'[h].written = 0 /\ last'[h].answer = "none"
        /\ b # NULL => b.capacity \in Nat /\ b.length \in Nat
    BY <1>2, <1>3 DEF NoCall
  <1>7. WritesFit'
    BY <1>2, <1>3, <1>4, <1>6 DEF DecryptInv, WritesFit
  <1>8. RoomUntilEmptied'
    BY <1>2, <1>3, <1>4 DEF DecryptInv, RoomUntilEmptied
  <1>9. OkMeansCopied'
    BY <1>2, <1>4, <1>6 DEF DecryptInv, OkMeansCopied
  <1> QED BY <1>5, <1>7, <1>8, <1>9 DEF DecryptInv

-----------------------------------------------------------------------------
LEMMA InitInv == Init => LifeInv
  <1> SUFFICES ASSUME Init PROVE LifeInv
    OBVIOUS
  <1> USE HeapAssumption DEF Init, NoInstance, NoObjects, NoneHeld, NoBuffers, NoCalls
  <1>1. TypeOK
    <2>1. NoCall \in [answer : {"none", "ok", "unknown"}, sample : 0..MaxSample,
                      written : 0..MaxSample, emptied : BOOLEAN]
      BY DEF NoCall
    <2>2. passthru \in BOOLEAN
      OBVIOUS
    <2> HIDE DEF NoCall
    <2> QED BY <2>1, <2>2 DEF TypeOK
  <1>2. StaticIsLive /\ NothingForgotten /\ MapsFilled /\ ConnectionOfCall
    BY DEF StaticIsLive, NothingForgotten, MapsFilled, ConnectionOfCall,
           Libraries
  <1>3. WritesFit /\ RoomUntilEmptied /\ OkMeansCopied
    BY DEF WritesFit, RoomUntilEmptied, OkMeansCopied
  <1> QED BY <1>1, <1>2, <1>3 DEF LifeInv

LEMMA StutterKeepsDecrypt ==
  ASSUME DecryptInv, UNCHANGED <<buf, last>>
  PROVE  DecryptInv'
  BY DEF DecryptInv, DecryptOK, WritesFit, RoomUntilEmptied, OkMeansCopied

LEMMA NextKeepsInv == LifeInv /\ [Next]_vars => LifeInv'
  <1> SUFFICES ASSUME /\ ObjectsOK /\ ObjectsInv /\ DataOK /\ DecryptInv
                      /\ MapsFilled /\ ConnectionOfCall,
                      [Next]_vars
               PROVE  /\ ObjectsOK' /\ ObjectsInv' /\ DataOK' /\ DecryptInv'
                      /\ MapsFilled' /\ ConnectionOfCall'
    <2>1. LifeInv' <=> /\ ObjectsOK' /\ ObjectsInv' /\ DataOK' /\ DecryptInv'
                       /\ MapsFilled' /\ ConnectionOfCall'
      BY InvParts, PTL
    <2> QED BY <2>1, InvParts
  <1> USE HeapAssumption
  <1> "drm" \in Libraries /\ "crypto" \in Libraries
    BY DEF Libraries
  <1> DEFINE DrmCreated(h) == /\ initRefDataMaps
                              /\ NvDrmPlugin /\ Instantiate("drm", h)
                              /\ UNCHANGED <<passthru, decrypt>>
  <1>1. ASSUME NEW h \in Hosts, DrmCreated(h)
        PROVE  /\ ObjectsOK' /\ ObjectsInv' /\ DataOK' /\ DecryptInv'
               /\ MapsFilled' /\ ConnectionOfCall'
    <2>1. ObjectsOK' /\ ObjectsInv'
      BY <1>1, InstantiateKeepsObjects
    <2>2. filled' = RefMaps /\ mapInitialized' = TRUE
      BY <1>1 DEF initRefDataMaps, MapsFilled
    <2>3. inited' = TRUE \/ inited' = inited
      BY <1>1 DEF NvDrmPlugin, DrmKernel_init, kernel
    <2>4. calling' = calling /\ opened' = opened /\ (inited => conn' = conn)
      BY <1>1 DEF NvDrmPlugin, DrmKernel_init, kernel
    <2>5. conn' \in Handles \union {NULL}
      BY <1>1 DEF NvDrmPlugin, DrmKernel_init, kernel, DataOK
    <2>6. DataOK'
      BY <1>1, <2>2, <2>3, <2>4, <2>5 DEF DataOK, decrypt
    <2>7. MapsFilled'
      BY <2>2 DEF MapsFilled
    <2>8. ConnectionOfCall'
      BY <2>3, <2>4 DEF ConnectionOfCall
    <2>9. DecryptInv'
      BY <1>1, StutterKeepsDecrypt DEF decrypt
    <2> QED BY <2>1, <2>6, <2>7, <2>8, <2>9
  <1>2. ASSUME NEW h \in Hosts, createPlugin(h)
        PROVE  /\ ObjectsOK' /\ ObjectsInv' /\ DataOK' /\ DecryptInv'
               /\ MapsFilled' /\ ConnectionOfCall'
    <2>1. ObjectsOK' /\ ObjectsInv' /\ held'["drm"] = held["drm"]
      BY <1>2, InstantiateKeepsObjects DEF createPlugin
    <2>2. UNCHANGED <<refData, kernel, passthru, decrypt>>
      BY <1>2 DEF createPlugin
    <2>3. DecryptInv'
      BY <2>2, StutterKeepsDecrypt DEF decrypt
    <2> QED BY <2>1, <2>2, <2>3
        DEF DataOK, MapsFilled, ConnectionOfCall, refData, kernel, decrypt
  <1>3. ASSUME ObjectsOK', ObjectsInv',
               UNCHANGED <<refData, kernel, passthru, decrypt>>,
               NEW l \in Libraries, NEW h \in Hosts,
               held' = [held EXCEPT ![l][h] = NULL]
        PROVE  /\ ObjectsOK' /\ ObjectsInv' /\ DataOK' /\ DecryptInv'
               /\ MapsFilled' /\ ConnectionOfCall'
    <2>1. \A g \in Hosts : held'["drm"][g] # NULL => held["drm"][g] # NULL
      BY <1>3 DEF ObjectsOK
    <2>2. DecryptInv'
      BY <1>3, StutterKeepsDecrypt DEF decrypt
    <2>3. MapsFilled'
      BY <1>3, <2>1 DEF MapsFilled, refData
    <2> QED BY <1>3, <2>2, <2>3
        DEF DataOK, ConnectionOfCall, refData, kernel, decrypt
  <1>4. ASSUME NEW l \in Libraries, NEW h \in Hosts,
               held[l][h] # NULL, Delete(l, h),
               UNCHANGED <<refData, kernel, passthru, decrypt>>
        PROVE  /\ ObjectsOK' /\ ObjectsInv' /\ DataOK' /\ DecryptInv'
               /\ MapsFilled' /\ ConnectionOfCall'
    <2>1. ObjectsOK' /\ ObjectsInv'
      BY <1>4, DeleteKeepsObjects
    <2>2. held' = [held EXCEPT ![l][h] = NULL]
      BY <1>4 DEF Delete
    <2> QED BY <1>3, <1>4, <2>1, <2>2
  <1>5. ASSUME NEW h \in Hosts, DeletePlugin(h)
         PROVE  /\ ObjectsOK' /\ ObjectsInv' /\ DataOK' /\ DecryptInv'
                /\ MapsFilled' /\ ConnectionOfCall'
    <2>1. ObjectsOK' /\ ObjectsInv'
      BY <1>5, DeletePluginKeepsObjects
    <2>2. /\ held' = [held EXCEPT !["crypto"][h] = NULL]
          /\ UNCHANGED <<refData, kernel, passthru, decrypt>>
      BY <1>5 DEF DeletePlugin
    <2> QED BY <1>3, <2>1, <2>2
  <1>6. ASSUME NEW l \in Libraries, NEW h \in Hosts, Forget(l, h)
         PROVE  /\ ObjectsOK' /\ ObjectsInv' /\ DataOK' /\ DecryptInv'
                /\ MapsFilled' /\ ConnectionOfCall'
    <2>1. /\ held' = [held EXCEPT ![l][h] = NULL]
          /\ UNCHANGED <<instance, heap, bypassed>>
          /\ UNCHANGED <<refData, kernel, passthru, decrypt>>
      BY <1>6 DEF Forget
    <2>2. ObjectsOK' /\ ObjectsInv'
      BY <2>1 DEF ObjectsOK, ObjectsInv, StaticIsLive, NothingForgotten
    <2> QED BY <1>3, <2>1, <2>2
  <1>7. ASSUME Crash
         PROVE  /\ ObjectsOK' /\ ObjectsInv' /\ DataOK' /\ DecryptInv'
                /\ MapsFilled' /\ ConnectionOfCall'
    <2> USE <1>7 DEF Crash, NoInstance, NoObjects, NoneHeld, NoBuffers, NoCalls
    <2>1. ObjectsOK' /\ ObjectsInv'
      BY DEF ObjectsOK, ObjectsInv, StaticIsLive, NothingForgotten
    <2>2. DataOK' /\ MapsFilled' /\ ConnectionOfCall'
      BY DEF DataOK, MapsFilled, ConnectionOfCall
    <2>3. DecryptOK'
      <3>1. NoCall \in [answer : {"none", "ok", "unknown"}, sample : 0..MaxSample,
                        written : 0..MaxSample, emptied : BOOLEAN]
        BY DEF NoCall
      <3> HIDE DEF NoCall
      <3> QED BY <3>1 DEF DecryptOK
    <2>4. WritesFit' /\ RoomUntilEmptied' /\ OkMeansCopied'
      BY DEF WritesFit, RoomUntilEmptied, OkMeansCopied
    <2> QED BY <2>1, <2>2, <2>3, <2>4 DEF DecryptInv
  <1>8. ASSUME UNCHANGED <<objects, refData>>, DataOK', DecryptInv',
               ConnectionOfCall'
        PROVE  /\ ObjectsOK' /\ ObjectsInv' /\ DataOK' /\ DecryptInv'
               /\ MapsFilled' /\ ConnectionOfCall'
    BY <1>8 DEF objects, refData, ObjectsOK, ObjectsInv, StaticIsLive,
                NothingForgotten, MapsFilled
  <1>9. ASSUME openNvDatabase \/ closeNvDatabase
        PROVE  /\ ObjectsOK' /\ ObjectsInv' /\ DataOK' /\ DecryptInv'
               /\ MapsFilled' /\ ConnectionOfCall'
    <2>1. UNCHANGED <<objects, refData, inited, passthru, decrypt>>
      BY <1>9 DEF openNvDatabase, closeNvDatabase
    <2>2. DecryptInv'
      BY <2>1, StutterKeepsDecrypt DEF decrypt
    <2>3. DataOK'
      BY <1>9, <2>1 DEF openNvDatabase, closeNvDatabase, DataOK, refData, decrypt
    <2>4. ConnectionOfCall'
      BY <1>9, <2>1 DEF openNvDatabase, closeNvDatabase, ConnectionOfCall, DataOK
    <2> QED BY <1>8, <2>1, <2>2, <2>3, <2>4
  <1>10. ASSUME NEW h \in Hosts,
               onOpenDecryptSession(h) \/ onCloseDecryptSession(h)
        PROVE  /\ ObjectsOK' /\ ObjectsInv' /\ DataOK' /\ DecryptInv'
               /\ MapsFilled' /\ ConnectionOfCall'
    <2>1. UNCHANGED <<objects, refData, kernel, passthru, buf, last>>
      BY <1>10 DEF onOpenDecryptSession, onCloseDecryptSession
    <2>2. session' \in SUBSET Hosts
      BY <1>10 DEF onOpenDecryptSession, onCloseDecryptSession, DataOK
    <2>3. DataOK' /\ ConnectionOfCall'
      BY <2>1, <2>2 DEF DataOK, ConnectionOfCall, refData, kernel
    <2> QED BY <1>8, <2>1, <2>3, StutterKeepsDecrypt
  <1>11. ASSUME NEW h \in Hosts, NewBuffer(h) \/ onDecrypt(h)
        PROVE  /\ ObjectsOK' /\ ObjectsInv' /\ DataOK' /\ DecryptInv'
               /\ MapsFilled' /\ ConnectionOfCall'
    <2>1. UNCHANGED <<objects, refData, kernel, passthru, session>>
      BY <1>11 DEF NewBuffer, onDecrypt
    <2>2. DecryptInv'
      BY <1>11, DecryptKeepsInv, NewBufferKeepsInv
    <2>3. DataOK' /\ ConnectionOfCall'
      BY <2>1 DEF DataOK, ConnectionOfCall, refData, kernel
    <2> QED BY <1>8, <2>1, <2>2, <2>3
  <1>12. CASE UNCHANGED vars
    <2>1. DataOK' /\ ConnectionOfCall'
      BY <1>12 DEF vars, DataOK, ConnectionOfCall, refData, kernel, decrypt
    <2>2. DecryptInv'
      BY <1>12, StutterKeepsDecrypt DEF vars, decrypt
    <2> QED BY <1>8, <1>12, <2>1, <2>2 DEF vars
  <1>13. ASSUME NEW h \in Hosts, create(h) \/ createDrmFactory(h)
         PROVE  DrmCreated(h)
    BY <1>13 DEF create, createDrmFactory
  <1>14. ASSUME NEW h \in Hosts, destroy(h)
         PROVE  /\ held["drm"][h] # NULL /\ Delete("drm", h)
                /\ UNCHANGED <<refData, kernel, passthru, decrypt>>
    BY <1>14 DEF destroy
  <1>15. ASSUME NEW h \in Hosts, destroyCrypto(h)
         PROVE  /\ held["crypto"][h] # NULL /\ Delete("crypto", h)
                /\ UNCHANGED <<refData, kernel, passthru, decrypt>>
    BY <1>15 DEF destroyCrypto
  <1> HIDE DEF DrmCreated
  <1> QED
    BY <1>1, <1>2, <1>4, <1>9, <1>10, <1>11, <1>12, <1>13, <1>14, <1>15, <1>5,
       <1>6, <1>7 DEF Next

LEMMA LifeInvariant == Spec => []LifeInv
  BY InitInv, NextKeepsInv, PTL DEF Spec

(* Type correctness of both libraries' objects, of the kernel's connection *)
(* and of the buffers (nvDrmPlugin.cpp, nvCryptoPlugin.cpp).               *)
THEOREM TypeCorrect == Spec => []TypeOK
  <1>1. LifeInv => TypeOK
    BY DEF LifeInv
  <1> QED BY LifeInvariant, <1>1, PTL

(* Whatever the number of hosts and of addresses, in whatever order they   *)
(* create and destroy, also the same object again: create hands out an     *)
(* object that is there (nvDrmPlugin.cpp:141-205, nvCryptoPlugin.cpp:43-80) *)
(* unless a host deleted the crypto plugin without destroy.                *)
THEOREM InstancesAreLive == Spec => []StaticIsLive
  <1>1. LifeInv => StaticIsLive
    BY DEF LifeInv
  <1> QED BY LifeInvariant, <1>1, PTL

(* In the same orders no object stays in memory but the instance: a        *)
(* deletion through a dangling pointer does not make the library forget    *)
(* the instance that came after it (the two branches of destroy).          *)
THEOREM InstancesAreNotForgotten == Spec => []NothingForgotten
  <1>1. LifeInv => NothingForgotten
    BY DEF LifeInv
  <1> QED BY LifeInvariant, <1>1, PTL

(* A plugin that some host holds has its reference maps filled             *)
(* (initRefDataMaps and both entry points).                                *)
THEOREM ReferenceDataIsThere == Spec => []HeldHasReferenceData
  <1>1. LifeInv => HeldHasReferenceData
    BY DEF LifeInv, MapsFilled, HeldHasReferenceData
  <1> QED BY LifeInvariant, <1>1, PTL

(* Creating the plugin again never takes its connection from a call inside *)
(* the kernel (DrmKernel_init).                                            *)
THEOREM CallsCloseTheirConnection == Spec => []CallClosesItsConnection
  <1>1. LifeInv => CallClosesItsConnection
    BY DEF LifeInv, ConnectionOfCall, CallClosesItsConnection
  <1> QED BY LifeInvariant, <1>1, PTL

(* For buffers and samples of any length, in any order, onDecrypt stays    *)
(* within the buffer.                                                      *)
THEOREM DecryptStaysInBuffer == Spec => []WritesFit
  <1>1. LifeInv => WritesFit
    BY DEF LifeInv
  <1> QED BY LifeInvariant, <1>1, PTL

(* In a series of such samples a NO_ERROR of onDecrypt means that the      *)
(* sample was copied, unless an empty sample came before it.               *)
THEOREM NoErrorMeansCopied == Spec => []OkMeansCopied
  <1>1. LifeInv => OkMeansCopied
    BY DEF LifeInv
  <1> QED BY LifeInvariant, <1>1, PTL
=============================================================================
