----------------------------- MODULE VoiceSetup -----------------------------
(***************************************************************************)
(* POST /signal-desk/voice/provision: the browser telephone needs a voice  *)
(* profile, a connection that uses it and a credential for the connection. *)
(* ensureSignalDeskVoice looks each of them up by name at the provider and *)
(* creates what is missing.  Nothing is stored here and nothing is locked: *)
(* what keeps a second request from making a second set is that it finds   *)
(* the first one.  The provider does not refuse a second one of a name.    *)
(*                                                                         *)
(* One HTTP call is one action.  There is no configured credential, which  *)
(* would leave nothing to do.                                              *)
(***************************************************************************)
EXTENDS Naturals

CONSTANTS Callers   \* requests that may be under way at once, one after the other

VARIABLES
    made,     \* external: how many of each kind each caller's calls have created
    caller    \* each caller: its next call, and the kind of resource it is about

voiceVars == <<made, caller>>
-----------------------------------------------------------------------------
Kinds == {"profile", "connection", "credential"}

Idle   == [does |-> "nothing", kind |-> "credential"]
Caller == [does : {"look", "create"}, kind : Kinds] \cup {Idle}

VoiceInit ==
    /\ made = [k \in Kinds |-> [c \in Callers |-> 0]]
    /\ caller = [c \in Callers |-> Idle]

GoesOn(c, next) == caller' = [caller EXCEPT ![c] = next]
Creates(c, k)   == made' = [made EXCEPT ![k][c] = @ + 1]

(* What comes after a resource is there.  The credential is the first to   *)
(* be looked for and the last to be created.                               *)
After(kind) ==
    CASE kind = "profile"    -> [does |-> "look", kind |-> "connection"]
      [] kind = "connection" -> [does |-> "create", kind |-> "credential"]
      [] kind = "credential" -> Idle

(* What comes after a resource was not found.                              *)
Missing(kind) ==
    IF kind = "credential" THEN [does |-> "look", kind |-> "profile"]
                           ELSE [does |-> "create", kind |-> kind]

Provision(c) ==
    /\ caller[c] = Idle
    /\ GoesOn(c, [does |-> "look", kind |-> "credential"])
    /\ UNCHANGED made

(* Mutant: connections, which are listed under connection_name, are        *)
(* compared by name.                                                       *)
Listed_ByName(kind) == kind # "connection" /\ \E c \in Callers : made[kind][c] > 0

Listed(kind) == \E c \in Callers : made[kind][c] > 0

(* findTelnyxResource.                                                     *)
Look(c) ==
    /\ caller[c].does = "look"
    /\ GoesOn(c, IF Listed(caller[c].kind) THEN After(caller[c].kind)
                                           ELSE Missing(caller[c].kind))
    /\ UNCHANGED made

(* createTelnyxResource.                                                   *)
Create(c) ==
    /\ caller[c].does = "create"
    /\ Creates(c, caller[c].kind)
    /\ GoesOn(c, After(caller[c].kind))

(* A call fails, or creates something and its answer is lost: the request  *)
(* ends with an error.                                                     *)
Breaks(c) ==
    /\ caller[c] # Idle
    /\ UNCHANGED made \/ (caller[c].does = "create" /\ Creates(c, caller[c].kind))
    /\ GoesOn(c, Idle)

VoiceNext == \E c \in Callers : Provision(c) \/ Look(c) \/ Create(c) \/ Breaks(c)

VoiceSpec == VoiceInit /\ [][VoiceNext]_voiceVars
-----------------------------------------------------------------------------
(* Properties.                                                             *)

VoiceTypeOK ==
    /\ made \in [Kinds -> [Callers -> Nat]]
    /\ caller \in [Callers -> Caller]

(* Requests that overlap can make a set of resources each, which is all    *)
(* they can do: however often requests are repeated, fail in the middle or *)
(* lose an answer, a caller never makes a second resource of a kind.  And  *)
(* there is no credential without a connection, nor that without a         *)
(* profile.                                                                *)
OneSetPerCaller ==
    /\ \A k \in Kinds, c \in Callers : made[k][c] <= 1
    /\ Listed("credential") => Listed("connection")
    /\ Listed("connection") => Listed("profile")
=============================================================================
