------------------------------ MODULE MCSources ------------------------------
(***************************************************************************)
(* A job with the source its command line names (-s,                       *)
(* sourceFactoryGenerator.cc): kind is that source.  The sources are those *)
(* of MCEventSources; Unrolling has the data products of a source, written *)
(* and read with serializationAlgorithm=Unrolled.  The variables of the    *)
(* modules that have no part in the job are 0.                             *)
(***************************************************************************)
EXTENDS MCEventSources

VARIABLES class, actions, product, buffer, object, rest

ofUnrolled == <<class, actions, product, buffer, object, rest>>

Unrolled == INSTANCE Unrolling WITH
  pc <- at, MaxLength <- 2,
  Classes <- {"SimpleClass", "TestClass", "TestClassWithPointerToSimpleClass",
              "TestClassWithFloatVector", "TestClassWithFloatDynamicArray",
              "IntAndVector", "TestClassWithSimpleClassVector",
              "TestClassWithTestClassVector", "TestClassVectorWithClassWithVector",
              "InheritFromPureAbstractBase", "InheritFromAbstractInheritingFromBase",
              "RecursiveClass", "RecursivePointerClass", "OffsetTest",
              "Chain", "Deep", "Track"}

NoUnrolled == /\ class = 0 /\ actions = 0 /\ product = 0 /\ buffer = 0
              /\ object = 0 /\ rest = 0

JobInit ==
  \/ EventsInit /\ NoUnrolled
  \/ /\ Unused /\ kind = "Unrolled" /\ Unrolled!Init
     /\ NotInBoth /\ NoEvents /\ NoWords

UnrolledNext ==
  /\ kind = "Unrolled" /\ Unrolled!Next
  /\ UNCHANGED <<vars, kind, objects, presentEventIndex_, ofEvents, ofWords>>

JobNext == \/ EventsNext /\ UNCHANGED ofUnrolled
           \/ UnrolledNext

JobSpec == JobInit /\ [][JobNext]_<<eventsVars, ofUnrolled>>
----------------------------------------------------------------------------
\* The variables of the source of the job have their types.
TypesOK == /\ TypeOK
           /\ kind \in EventKinds => OneByOne!TypeOK
           /\ kind \in WordKinds => Words!TypeOK
           /\ kind = "Unrolled" => Unrolled!TypeOK

\* Unrolling: what the unrolled actions read into the lane's old object is what they
\* wrote, for every class, and nothing is left over.
ReadsBackWhatWasWritten == kind = "Unrolled" => Unrolled!ReadsBackWhatWasWritten
=============================================================================
