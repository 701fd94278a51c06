----------------------------- MODULE PluginLife -----------------------------
(***************************************************************************)
(* The objects of the two plugin libraries in one process, as the hosts of *)
(* the process (TPlugInManager for libNvDrmPlugin, the media player        *)
(* service for libNvCryptoPlugin) create, share and destroy them.          *)
(*                                                                         *)
(* Each library keeps its only instance behind a static pointer and hands  *)
(* it to every host that asks.  Constructing the DRM plugin initialises    *)
(* the DRM kernel, whose connection a call of the crypto kernel may be     *)
(* using at that moment.  A host decrypts samples with the passthrough of  *)
(* the DRM plugin into a buffer that it allocates and may use again.       *)
(*                                                                         *)
(* The libraries do not count the hosts: any host that got the instance    *)
(* may destroy it while others hold it, forget its pointer, or delete the  *)
(* crypto plugin without destroy.  What is deleted leaves the pointers of  *)
(* the other hosts dangling.  A call or a deletion through such a pointer  *)
(* is undefined: it does what it does to an object that is there, with no  *)
(* effect on the heap, or its process dies (Crash).                        *)
(***************************************************************************)
EXTENDS Naturals

CONSTANTS
  Hosts,      \* users of the libraries in the process
  Objects,    \* addresses of plugin objects
  Handles,    \* sqlite3* values
  NULL,
  MaxBuffer,  \* bound: capacity of a caller's buffer
  MaxSample   \* bound: length of an encrypted buffer

ASSUME HeapAssumption ==
  /\ NULL \notin Objects \union Handles
  /\ MaxBuffer \in Nat /\ MaxSample \in Nat

Libraries == {"drm", "crypto"}
RefMaps == {"drmSchemes", "mimeTypes", "fileExts"}
Buffer == [capacity : 0..MaxBuffer, length : 0..MaxBuffer]

VARIABLES
  instance,   \* per library: sNvDrmPluginInstance, sNvCryptoPluginInstance
  heap,       \* per library: the objects constructed and not deleted
  held,       \* per library and host: the pointer the host got, or NULL
  bypassed,   \* a host has deleted the crypto plugin itself (a history)
  filled,     \* the reference maps that have their entries
  mapInitialized,
  inited,     \* mDatabaseConnectionInitialized
  conn,       \* mDatabaseConnection._pDatabase
  opened,     \* connections that SQLite holds open
  calling,    \* a call of the crypto kernel is inside the DRM kernel
  passthru,   \* the library was built with ENABLE_PASSTHRU_DECRYPTION
  session,    \* the hosts with an open decrypt session
  buf,        \* per host: its decBuffer, or NULL
  last        \* per host: its last onDecrypt

objects == <<instance, heap, held, bypassed>>
refData == <<filled, mapInitialized>>
kernel  == <<inited, conn, opened, calling>>
decrypt == <<session, buf, last>>
vars    == <<objects, refData, kernel, passthru, decrypt>>

(* The last onDecrypt of a host: its answer, the length of its sample, how *)
(* many bytes it wrote, and whether an empty sample has gone through the   *)
(* buffer since it was allocated (a history).                              *)
NoCall == [answer |-> "none", sample |-> 0, written |-> 0, emptied |-> FALSE]

TypeOK ==
  /\ instance \in [Libraries -> Objects \union {NULL}]
  /\ heap \in [Libraries -> SUBSET Objects]
  /\ held \in [Libraries -> [Hosts -> Objects \union {NULL}]]
  /\ bypassed \in BOOLEAN
  /\ filled \in SUBSET RefMaps
  /\ mapInitialized \in BOOLEAN
  /\ inited \in BOOLEAN
  /\ conn \in Handles \union {NULL}
  /\ opened \in SUBSET Handles
  /\ calling \in BOOLEAN
  /\ passthru \in BOOLEAN
  /\ session \in SUBSET Hosts
  /\ buf \in [Hosts -> Buffer \union {NULL}]
  /\ last \in [Hosts -> [answer : {"none", "ok", "unknown"},
                         sample : 0..MaxSample, written : 0..MaxSample,
                         emptied : BOOLEAN]]

NoInstance == [l \in Libraries |-> NULL]
NoObjects  == [l \in Libraries |-> {}]
NoneHeld   == [l \in Libraries |-> [h \in Hosts |-> NULL]]
NoBuffers  == [h \in Hosts |-> NULL]
NoCalls    == [h \in Hosts |-> NoCall]

Init ==
  /\ instance = NoInstance /\ heap = NoObjects /\ held = NoneHeld
  /\ bypassed = FALSE
  /\ filled = {} /\ mapInitialized = FALSE
  /\ inited = FALSE /\ conn = NULL /\ opened = {} /\ calling = FALSE
  /\ passthru \in BOOLEAN
  /\ session = {} /\ buf = NoBuffers /\ last = NoCalls

-----------------------------------------------------------------------------
(* Creation and destruction.                                               *)

initRefDataMaps ==
  /\ filled' = IF mapInitialized THEN filled ELSE RefMaps
  /\ mapInitialized' = TRUE

DrmKernel_initAlways ==    \* mutant: the kernel is initialised every time
  /\ inited' = TRUE
  /\ conn' = NULL
  /\ UNCHANGED <<opened, calling>>

(* Only the first initialisation sets the connection to NULL.              *)
DrmKernel_init ==
  /\ inited' = TRUE
  /\ conn' = IF inited THEN conn ELSE NULL
  /\ UNCHANGED <<opened, calling>>

(* The NvDrmPlugin constructor; the metadata it publishes never change and *)
(* are left out.                                                           *)
NvDrmPlugin == IF instance["drm"] = NULL THEN DrmKernel_init
                                         ELSE UNCHANGED kernel

(* Construct the instance unless there is one, and return it.              *)
Instantiate(l, h) ==
  /\ \/ /\ instance[l] = NULL
        /\ \E o \in Objects \ heap[l] :
             /\ instance' = [instance EXCEPT ![l] = o]
             /\ heap' = [heap EXCEPT ![l] = @ \union {o}]
             /\ held' = [held EXCEPT ![l][h] = o]
     \/ /\ instance[l] # NULL
        /\ held' = [held EXCEPT ![l][h] = instance[l]]
        /\ UNCHANGED <<instance, heap>>
  /\ UNCHANGED bypassed

create(h) ==
  /\ held["drm"][h] = NULL
  /\ initRefDataMaps
  /\ NvDrmPlugin
  /\ Instantiate("drm", h)
  /\ UNCHANGED <<passthru, decrypt>>

createDrmFactoryBare(h) ==    \* mutant: without initRefDataMaps
  /\ held["drm"][h] = NULL
  /\ NvDrmPlugin
  /\ Instantiate("drm", h)
  /\ UNCHANGED <<refData, passthru, decrypt>>

createDrmFactory(h) ==
  /\ held["drm"][h] = NULL
  /\ initRefDataMaps
  /\ NvDrmPlugin
  /\ Instantiate("drm", h)
  /\ UNCHANGED <<passthru, decrypt>>

(* NvCryptoFactory::createPlugin, which stores what create returns.        *)
createPlugin(h) ==
  /\ held["crypto"][h] = NULL
  /\ Instantiate("crypto", h)
  /\ UNCHANGED <<refData, kernel, passthru, decrypt>>

DeleteUnreset(l, h) ==    \* mutant: the static pointer keeps its value
  /\ heap' = [heap EXCEPT ![l] = @ \ {held[l][h]}]
  /\ held' = [held EXCEPT ![l][h] = NULL]
  /\ UNCHANGED <<instance, bypassed>>

DeleteForgets(l, h) ==    \* mutant: the static pointer is always reset
  /\ heap' = [heap EXCEPT ![l] = @ \ {held[l][h]}]
  /\ instance' = [instance EXCEPT ![l] = NULL]
  /\ held' = [held EXCEPT ![l][h] = NULL]
  /\ UNCHANGED bypassed

(* delete the object that the host passes, whoever else holds it and       *)
(* whether it is still there; forget it when it is the instance.           *)
Delete(l, h) ==
  /\ heap' = [heap EXCEPT ![l] = @ \ {held[l][h]}]
  /\ instance' = [instance EXCEPT
                    ![l] = IF @ = held[l][h] THEN NULL ELSE @]
  /\ held' = [held EXCEPT ![l][h] = NULL]
  /\ UNCHANGED bypassed

destroy(h) ==
  /\ held["drm"][h] # NULL
  /\ Delete("drm", h)
  /\ UNCHANGED <<refData, kernel, passthru, decrypt>>

destroyCrypto(h) ==
  /\ held["crypto"][h] # NULL
  /\ Delete("crypto", h)
  /\ UNCHANGED <<refData, kernel, passthru, decrypt>>

(* The media player service deletes the CryptoPlugin that createPlugin     *)
(* gave it: the static pointer keeps its value.                            *)
DeletePlugin(h) ==
  /\ held["crypto"][h] # NULL
  /\ heap' = [heap EXCEPT !["crypto"] = @ \ {held["crypto"][h]}]
  /\ held' = [held EXCEPT !["crypto"][h] = NULL]
  /\ bypassed' = TRUE
  /\ UNCHANGED <<instance, refData, kernel, passthru, decrypt>>

(* A host forgets its pointer.                                             *)
Forget(l, h) ==
  /\ held[l][h] # NULL
  /\ held' = [held EXCEPT ![l][h] = NULL]
  /\ UNCHANGED <<instance, heap, bypassed, refData, kernel, passthru, decrypt>>

(* The process dies, of a dangling pointer or any other cause, and another *)
(* one is started from the same build.                                     *)
Crash ==
  /\ instance' = NoInstance /\ heap' = NoObjects /\ held' = NoneHeld
  /\ bypassed' = FALSE
  /\ filled' = {} /\ mapInitialized' = FALSE
  /\ inited' = FALSE /\ conn' = NULL /\ opened' = {} /\ calling' = FALSE
  /\ session' = {} /\ buf' = NoBuffers /\ last' = NoCalls
  /\ UNCHANGED passthru

-----------------------------------------------------------------------------
(* A call of the crypto kernel in the DRM kernel of the same process, at   *)
(* the grain of its connection (DrmStore has its steps and failures).      *)

openNvDatabase ==
  /\ inited /\ ~calling
  /\ \E handle \in Handles \ opened :
       /\ conn' = handle
       /\ opened' = opened \union {handle}
  /\ calling' = TRUE
  /\ UNCHANGED <<objects, refData, inited, passthru, decrypt>>

(* Without a connection there is nothing to close, and nothing is.         *)
closeNvDatabase ==
  /\ calling
  /\ opened' = opened \ {conn}
  /\ conn' = NULL
  /\ calling' = FALSE
  /\ UNCHANGED <<objects, refData, inited, passthru, decrypt>>

-----------------------------------------------------------------------------
(* Decrypt sessions of the DRM plugin.                                     *)

(* DRM_ERROR_CANNOT_HANDLE without the passthrough.                        *)
onOpenDecryptSession(h) ==
  /\ held["drm"][h] # NULL /\ h \notin session
  /\ session' = IF passthru THEN session \union {h} ELSE session
  /\ UNCHANGED <<objects, refData, kernel, passthru, buf, last>>

onCloseDecryptSession(h) ==
  /\ held["drm"][h] # NULL /\ h \in session
  /\ session' = session \ {h}
  /\ UNCHANGED <<objects, refData, kernel, passthru, buf, last>>

(* The host allocates another decBuffer, or passes none.                   *)
NewBuffer(h) ==
  /\ h \in session
  /\ \/ buf' = [buf EXCEPT ![h] = NULL]
     \/ \E n \in 0..MaxBuffer :
          buf' = [buf EXCEPT ![h] = [capacity |-> n, length |-> n]]
  /\ last' = [last EXCEPT ![h] = NoCall]
  /\ UNCHANGED <<objects, refData, kernel, passthru, session>>

HasRoom(h) == buf[h] # NULL /\ buf[h].length > 0

FitsUnchecked(h, n) ==    \* mutant: the length of the buffer is not compared
  HasRoom(h)

Fits(h, n) == HasRoom(h) /\ buf[h].length >= n

RoomLeft(h, n) ==    \* mutant: the length becomes what is left
  buf[h].length - n

(* The length of the buffer is its room before a copy, its data after it.  *)
LengthAfter(h, n) == n

onDecrypt(h) ==
  /\ held["drm"][h] # NULL /\ h \in session
  /\ \E n \in 0..MaxSample :
       LET Answer(answer, written) ==
             last' = [last EXCEPT ![h] =
               [answer |-> answer, sample |-> n, written |-> written,
                emptied |-> @.emptied \/ n = 0]]
       IN \/ /\ Fits(h, n)
             /\ buf' = [buf EXCEPT ![h] = [capacity |-> buf[h].capacity,
                                          length |-> LengthAfter(h, n)]]
             /\ Answer("ok", n)
          \/ /\ HasRoom(h) /\ ~Fits(h, n)
             /\ Answer("unknown", 0)
             /\ UNCHANGED buf
          \/ /\ ~HasRoom(h)
             /\ Answer("ok", 0)
             /\ UNCHANGED buf
  /\ UNCHANGED <<objects, refData, kernel, passthru, session>>

-----------------------------------------------------------------------------
Next ==
  \/ \E h \in Hosts :
       \/ create(h) \/ createDrmFactory(h) \/ destroy(h)
       \/ createPlugin(h) \/ destroyCrypto(h)
       \/ DeletePlugin(h) \/ \E l \in Libraries : Forget(l, h)
       \/ onOpenDecryptSession(h) \/ onCloseDecryptSession(h)
       \/ NewBuffer(h) \/ onDecrypt(h)
  \/ openNvDatabase \/ closeNvDatabase \/ Crash

Spec == Init /\ [][Next]_vars

-----------------------------------------------------------------------------
(* PROPERTIES                                                              *)

(* create hands out a constructed object, never one that was deleted,      *)
(* although hosts destroy the instance under each other, destroy it again  *)
(* through pointers that dangle, and although a new object may have the    *)
(* address of a deleted one.  Only a host that deletes the crypto plugin   *)
(* without destroy leaves a deleted instance behind for the next host.     *)
StaticIsLive ==
  \A l \in Libraries :
    instance[l] # NULL => instance[l] \in heap[l] \/ (l = "crypto" /\ bypassed)

(* No object is forgotten: in the same orders of creations, deletions and  *)
(* repeated deletions, every object in memory is the one that the next     *)
(* create hands out and its destroy deletes.                               *)
NothingForgotten == \A l \in Libraries : heap[l] \subseteq {instance[l]}

(* The methods that read the maps of schemes, mime types and extensions    *)
(* (onCanHandle, onGetSupportInfo, onGetOriginalMimeType) find them        *)
(* filled, through whichever of the two entry points the plugin came.      *)
HeldHasReferenceData ==
  (\E h \in Hosts : held["drm"][h] # NULL) => filled = RefMaps

(* The plugin may be destroyed and created again while the crypto kernel   *)
(* is inside the DRM kernel: the call still closes the connection that it  *)
(* opened, since DrmKernel_init does nothing the second time.              *)
CallClosesItsConnection == calling <=> opened # {}

(* onDecrypt never writes past the buffer of its caller, also when the     *)
(* buffer is used for a series of samples: the length that it leaves in    *)
(* the buffer, which is all the next call knows of it, is within the       *)
(* buffer's capacity.                                                      *)
WritesFit ==
  \A h \in Hosts : buf[h] # NULL =>
    last[h].written <= buf[h].capacity /\ buf[h].length <= buf[h].capacity

(* A NO_ERROR of onDecrypt means that the sample is in the buffer, as the  *)
(* comment in it says, as long as no empty sample has gone through the     *)
(* buffer: that leaves a length of 0, with which later samples are not     *)
(* copied and are answered NO_ERROR too.                                   *)
OkMeansCopied ==
  \A h \in Hosts :
    buf[h] # NULL /\ buf[h].capacity > 0 /\ ~last[h].emptied
      => (last[h].answer = "ok" => last[h].written = last[h].sample)

-----------------------------------------------------------------------------
(* INVARIANT of the proofs in PluginLifeProofs.                            *)

(* The maps are filled when they are marked so, which they are before the  *)
(* first DRM plugin is there to be held.                                   *)
MapsFilled ==
  /\ mapInitialized => filled = RefMaps
  /\ \A h \in Hosts : held["drm"][h] # NULL => mapInitialized

(* The only open connection is that of the call under way.                 *)
ConnectionOfCall ==
  /\ opened = (IF calling THEN {conn} ELSE {})
  /\ calling => inited /\ conn # NULL

(* A buffer's length is 0 only once an empty sample went through it.       *)
RoomUntilEmptied ==
  \A h \in Hosts :
    buf[h] # NULL /\ buf[h].capacity > 0 /\ ~last[h].emptied
      => buf[h].length > 0

LifeInv ==
  /\ TypeOK /\ StaticIsLive /\ NothingForgotten /\ MapsFilled
  /\ ConnectionOfCall /\ WritesFit /\ RoomUntilEmptied /\ OkMeansCopied
=============================================================================
