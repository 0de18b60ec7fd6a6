---- MODULE CallsAndLimits ----
(* What an upload meets besides its stream: the limits of every layer it    *)
(* passes (UploadLimits), and the surface an operation is asked through     *)
(* with the way its answer takes back (ServerCall).  They share no state,   *)
(* each has its own variables.                                              *)

CONSTANTS
    LargestInteger,     \* largest integer of the build
    ServerOptions,      \* server options tried
    CallerLimits,       \* limits callers ask for
    UploadSizes,        \* uploads tried, by their sizes
    CallRequests,       \* calls tried
    ServerReleases,     \* servers tried, by what they know
    CoreFailures,       \* the error sets each operation's core can return
    ResultItems         \* the items of a sync, a purge or a bulk upgrade

VARIABLES
    limitServer, limitCall, limitWire,
    calling, called, request, serving, core, answer, outcome

limitVars == <<limitServer, limitCall, limitWire>>
callVars == <<calling, called, request, serving, core, answer, outcome>>

Limits == INSTANCE UploadLimits WITH
    MaxInt <- LargestInteger, Served <- ServerOptions, Asked <- CallerLimits, Uploads <- UploadSizes,
    server <- limitServer, call <- limitCall, wire <- limitWire

Call == INSTANCE ServerCall WITH
    Calls <- CallRequests, Servers <- ServerReleases, Failures <- CoreFailures, Items <- ResultItems,
    call <- calling, server <- called, reply <- answer

ASSUME SizesAssumption == Limits!LimitsAssumption
ASSUME DeployedAssumption == Limits!Deployed
ASSUME CallsAssumption == Call!CallAssumption

(* No upload is stored above a limit in force for it, and none within every *)
(* stated limit is refused: the limits of client, transport, request parser *)
(* and core agree (UploadLimits).                                           *)
LimitsAgree == Limits!LimitsHonoured /\ Limits!AllowedIsAccepted

(* No surface reports success for an operation that did not succeed, an     *)
(* error keeps its identity over a server, and the answer a caller reads is *)
(* what the core did (ServerCall, HonestSuccess, ErrorIdentity and          *)
(* AnswerFaithful).                                                         *)
AnswerTrue == Call!HonestSuccess /\ Call!ErrorIdentity /\ Call!AnswerFaithful

(* No server gets a body in a shape or at a route it does not know          *)
(* (ServerCall).                                                            *)
BundleUnderstood == Call!BundleUnderstood

(* A download that succeeds wrote the whole object and nothing else         *)
(* (ServerCall).                                                            *)
GetDeliversObject == Call!GetDeliversObject
====
