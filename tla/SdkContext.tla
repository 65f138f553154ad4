----------------------------- MODULE SdkContext -----------------------------
(***************************************************************************)
(* The vendor SDK shared by a process: SdkContext of                       *)
(* src/src/backends/real_sdk/sdk_context.cpp.                              *)
(*                                                                         *)
(* Each user of the SDK owns a handle; the first to acquire initialises    *)
(* the SDK, the last to release shuts it down.  Both calls run under one   *)
(* lock, and initialisation cannot fail in this build.                     *)
(***************************************************************************)
EXTENDS Integers, FiniteSets

CONSTANT Handles  \* the SdkContext objects of the process

VARIABLES
  sdk,     \* initialized, active handles, calls to initialise and to shut down
  holders  \* the handles that are acquired

sdkVars == <<sdk, holders>>

SdkOff == [on |-> FALSE, users |-> 0, inits |-> 0, shutdowns |-> 0]

SdkInit == sdk = SdkOff /\ holders = {}

\* Acquiring again changes nothing.
Acquired(h, s) ==
  IF h \in holders THEN s
  ELSE [on |-> TRUE, users |-> s.users + 1, shutdowns |-> s.shutdowns,
        inits |-> s.inits + (IF s.on THEN 0 ELSE 1)]

AcquireSdk(h) == sdk' = Acquired(h, sdk) /\ holders' = holders \cup {h}

Released(h, s) ==
  IF h \notin holders THEN s
  ELSE LET left == IF s.users > 0 THEN s.users - 1 ELSE 0
           last == left = 0 /\ s.on
       IN  [on |-> s.on /\ ~last, users |-> left, inits |-> s.inits,
            shutdowns |-> s.shutdowns + (IF last THEN 1 ELSE 0)]

\* Also the destructor of a handle.
ReleaseSdk(h) == sdk' = Released(h, sdk) /\ holders' = holders \ {h}

\* h = std::move(g): h gives up its own claim and takes over that of g.
MoveSdk(h, g) ==
  /\ h # g
  /\ sdk' = Released(h, sdk)
  /\ holders' = IF g \in holders THEN (holders \ {g}) \cup {h} ELSE holders \ {h}

SdkNext ==
  \/ \E h \in Handles : AcquireSdk(h) \/ ReleaseSdk(h)
  \/ \E h, g \in Handles : MoveSdk(h, g)

SdkSpec == SdkInit /\ [][SdkNext]_sdkVars

-----------------------------------------------------------------------------
(***************************************************************************)
(* Properties                                                              *)
(***************************************************************************)

SdkTypeOK ==
  /\ holders \subseteq Handles
  /\ sdk \in [on : BOOLEAN, users : Nat, inits : Nat, shutdowns : Nat]

\* The SDK is initialised exactly while some handle holds it, by one more call
\* than it has been shut down, and counts its holders.
SdkBalanced ==
  /\ sdk.on <=> holders # {}
  /\ sdk.users = Cardinality(holders)
  /\ sdk.inits - sdk.shutdowns = IF sdk.on THEN 1 ELSE 0
=============================================================================
