----------------------------- MODULE Collector -----------------------------
(***************************************************************************)
(* A verification by either adapter (internal/netpolicy/linuxwg.go,        *)
(* collector.collect): the question goes to the reader of OpenWrt when the *)
(* gateway's binding says so, and to the native collectors of NetVerify    *)
(* otherwise. One of the two is at work and the other one rests.           *)
(***************************************************************************)
EXTENDS NetVerify

CONSTANTS OwChains, Interfaces, NoInterface, Bits, NoMark, Tables, NoRoute, MaxEdits, ReadLimit,
          Configurations, Versions

VARIABLES router, binding, owPermitted, owPc, at, sample, first, used, owFacts, mid, past, undone, edits

openWrt == <<router, binding, owPermitted, owPc, at, sample, first, used, owFacts, mid, past,
             undone, edits>>

OW == INSTANCE OpenWrtReader WITH
        Chains <- OwChains, permitted <- owPermitted, pc <- owPc, facts <- owFacts

ASSUME ConfigurationsAssumption ==
    /\ \A c \in Configurations : OW!Valid(c[1]) /\ c[2] \in OW!Routers
    /\ Versions \subseteq OW!Routers
ASSUME NothingAssumption == NoInterface \notin Interfaces

\* The adapter that rests has nothing to read and nobody to ask.
OpenWrtRests == /\ owPc = "rests" /\ owPermitted = FALSE
                /\ router = NoRoute /\ binding = NoRoute /\ sample = NoRoute /\ first = NoRoute
                /\ mid = NoRoute /\ past = NoRoute /\ owFacts = OW!NoFacts
                /\ at = 1 /\ used = 0 /\ undone = FALSE /\ edits = 0
NativeRests == Init /\ chain = "odd"

\* The command has returned what the reader found.
Returned == owPc \in {"accepted", "refused"} /\ UNCHANGED <<vars, openWrt>>

InitEither == (Init /\ OpenWrtRests) \/ (NativeRests /\ OW!Init)
NextEither == \/ owPc = "rests" /\ Next /\ UNCHANGED openWrt
              \/ owPc # "rests" /\ OW!Next /\ UNCHANGED vars
              \/ Returned
SpecEither == InitEither /\ [][NextEither]_<<vars, openWrt>>

\* A snapshot of OpenWrt was true at one moment; what is derived of forwarding,
\* guard and route is true of the rules of that moment (OpenWrtReader).
SnapshotWasTrue == OW!SnapshotWasTrue
FiltersAreTrue == OW!FiltersAreTrue
RouteIsTrue == OW!RouteIsTrue
=============================================================================
