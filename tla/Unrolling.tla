------------------------------ MODULE Unrolling ------------------------------
(***************************************************************************)
(* Unrolled serialization: common_unrolling.cc turns a class into actions, *)
(* one for every member it can reach by going into member objects, base    *)
(* classes and vectors; UnrolledSerializer applies them to an object, and  *)
(* UnrolledDeserializer to the lane's object, which still holds the event  *)
(* before.  A member it cannot or may not go into is left to ROOT, rolled. *)
(*                                                                         *)
(* An object is a sequence of cells, one per member, those of its base     *)
(* classes and member objects in place; a vector is one cell, with the     *)
(* objects in it.  What ROOT does for a rolled member, and for the one     *)
(* value of an item of a vector of numbers, is one entry of the buffer.    *)
(***************************************************************************)
EXTENDS Integers, Sequences, FiniteSets, SequencesExt

CONSTANTS Classes,   \* classes of the data product
          MaxLength  \* bound of the length of a vector

VARIABLES class, actions,  \* the data product's, and its actions, from the constructor
          product,         \* what the event has
          buffer,          \* bufferFile_, then blob
          object, rest,    \* the lane's object, and what reading left of the buffer
          pc

vars == <<class, actions, product, buffer, object, rest, pc>>

----------------------------------------------------------------------------
\* The classes: of those in test_classes/TestClasses.h that unroll_test.cc tries,
\* all but the ones with a std::unique_ptr, an array of fixed size or a map ...

Member == [kind |-> "basic", class |-> "none"]
Pointer == [kind |-> "pointer", class |-> "none"]
Builtins == [kind |-> "builtins", class |-> "Builtin"]
Base(c) == [kind |-> "base", class |-> c]
Object(c) == [kind |-> "object", class |-> c]
Vector(c) == [kind |-> "vector", class |-> c]

PlainClasses ==
  [SimpleClass |-> <<Member>>,
   EmptyBase |-> <<>>,
   TestClass |-> <<Base("EmptyBase"), Member, Member>>,
   TestClassWithPointerToSimpleClass |-> <<Pointer>>]

VectorClasses ==
  [TestClassWithFloatVector |-> <<Builtins>>,
   TestClassWithFloatDynamicArray |-> <<Member, Pointer>>,
   TestClassWithSimpleClassVector |-> <<Vector("SimpleClass")>>,
   TestClassWithTestClassVector |-> <<Vector("TestClass")>>,
   TestClassVectorWithClassWithVector |-> <<Vector("TestClassWithTestClassVector")>>]

DerivedClasses ==
  [PureAbstractBase |-> <<>>,
   InheritFromPureAbstractBase |-> <<Base("PureAbstractBase"), Member>>,
   BaseWithInt |-> <<Member>>,
   AbstractInheritingFromBaseWithInt |-> <<Base("BaseWithInt")>>,
   InheritFromAbstractInheritingFromBase |->
     <<Base("AbstractInheritingFromBaseWithInt"), Member>>,
   RecursiveClass |-> <<Vector("RecursiveClass")>>,
   RecursivePointerClass |-> <<Pointer>>,
   OffsetTest |-> <<Member, Object("TestClassWithFloatVector")>>]

\* ... the pair of unroll_test.cc:252, and some it does not try: recursion through
\* a member, pointers further down
MoreClasses ==
  [Builtin |-> <<Member>>,
   IntAndVector |-> <<Member, Vector("TestClassWithFloatVector")>>,
   Link |-> <<Member, Object("Chain"), Member>>,
   Chain |-> <<Vector("Link"), Member>>,
   Deep |-> <<Member, Object("OffsetTest"), Base("IntAndVector"), Member>>,
   Track |-> <<Object("TestClassWithFloatDynamicArray"), Builtins,
               Vector("TestClassWithPointerToSimpleClass"), Object("RecursiveClass")>>]

Elements == PlainClasses @@ VectorClasses @@ DerivedClasses @@ MoreClasses

RECURSIVE Size(_)
SizeOfElement(e) == IF e.kind \in {"base", "object"} THEN Size(e.class) ELSE 1
Size(c) == FoldLeft(LAMBDA n, e : n + SizeOfElement(e), 0, Elements[c])

\* GetOffset of element i
Offset(c, i) == FoldLeft(LAMBDA n, e : n + SizeOfElement(e), 0, SubSeq(Elements[c], 1, i - 1))

----------------------------------------------------------------------------
\* common_unrolling.cc

ElementNeedsOwnSequence(e) == ~(e.kind = "base" /\ Size(e.class) = 0)

CanUnroll(c) == \A i \in DOMAIN Elements[c] : Elements[c][i].kind # "pointer"

Nothing == [objects |-> <<>>, collections |-> <<>>]

Both(a, b) == [objects |-> a.objects \o b.objects,
               collections |-> a.collections \o b.collections]

\* a new object of the class: members are 0, vectors are empty
New(c) ==
  LET RECURSIVE OfClass(_)
      OfElement(e) == CASE e.kind \in {"base", "object"} -> OfClass(e.class)
                        [] e.kind \in {"vector", "builtins"} -> << <<>> >>
                        [] OTHER -> << <<0>> >>
      OfClass(d) == FlattenSeq([i \in DOMAIN Elements[d] |-> OfElement(Elements[d][i])])
  IN OfClass(c)

\* oCollections.emplace_back, with the actions for an item
Collection(c, at, item) ==
  [objects |-> <<>>,
   collections |-> <<[at |-> at, new |-> New(c), objects |-> item.objects,
                      collections |-> item.collections]>>]

Rolled(base, offset, size) ==
  [objects |-> <<[base |-> base, offset |-> offset, size |-> size]>>, collections |-> <<>>]

\* addUnrolledActionSequencesForElement of element i of class c
RECURSIVE ElementActions(_, _, _, _)

MemberActions(c, base, hierarchy) ==
  FoldLeft(LAMBDA a, i : Both(a, ElementActions(c, i, base, hierarchy)),
           Nothing, [i \in DOMAIN Elements[c] |-> i])

ElementActions(c, i, base, hierarchy) ==
  LET e == Elements[c][i]
      offset == Offset(c, i)
      goesInto == e.class # "none" /\ CanUnroll(e.class) /\ e.class \notin hierarchy
  IN CASE ~ElementNeedsOwnSequence(e) -> Nothing
       [] e.kind \in {"base", "object"} /\ goesInto ->
            MemberActions(e.class, base + offset, hierarchy)
       [] e.kind = "vector" /\ goesInto ->
            Collection(e.class, base + offset,
                       MemberActions(e.class, 0, hierarchy \cup {e.class}))
       [] e.kind = "builtins" -> Collection("Builtin", base + offset, Rolled(0, 0, 1))
       [] ElementNeedsOwnSequence(e) -> Rolled(base, offset, SizeOfElement(e))

\* buildActionSequence
BuildActionSequence(c) ==
  IF CanUnroll(c) THEN MemberActions(c, 0, {c}) ELSE Rolled(0, 0, Size(c))

----------------------------------------------------------------------------
\* UnrolledSerializer::serialize: the actions of the object first, then its
\* collections, each with its size
RECURSIVE Serialize(_, _)
Serialize(address, acts) ==
  LET Apply(a) == SubSeq(address, a.base + a.offset + 1, a.base + a.offset + a.size)
      Items(c) == FlattenSeq([k \in DOMAIN address[c.at + 1] |->
                                Serialize(address[c.at + 1][k], c)])
  IN [i \in DOMAIN acts.objects |-> Apply(acts.objects[i])]
       \o FlattenSeq([i \in DOMAIN acts.collections |->
            << <<Len(address[acts.collections[i].at + 1])>> >> \o Items(acts.collections[i])])

\* UnrolledDeserializer::deserialize

\* Mutated: a vector that is long enough is left as it is.
AllocateAtLeast(vector, n, new) ==
  IF Len(vector) >= n THEN vector
  ELSE [k \in 1..n |-> IF k <= Len(vector) THEN vector[k] ELSE new]

\* Allocate(size, true): items that were there keep what they held
Allocate(vector, n, new) == [k \in 1..n |-> IF k <= Len(vector) THEN vector[k] ELSE new]

ReadAction(read, a) ==
  [object |-> [j \in DOMAIN read.object |->
                 IF j - 1 \in (a.base + a.offset)..(a.base + a.offset + a.size - 1)
                   THEN Head(read.rest)[j - a.base - a.offset] ELSE read.object[j]],
   rest |-> Tail(read.rest)]

RECURSIVE Deserialize(_, _)

ReadItem(read, k, c) ==
  LET item == Deserialize([object |-> read.object[k], rest |-> read.rest], c)
  IN [object |-> [read.object EXCEPT ![k] = item.object], rest |-> item.rest]

ReadCollection(read, c) ==
  LET n == Head(read.rest)[1]
      vector == FoldLeft(LAMBDA r, k : ReadItem(r, k, c),
                         [object |-> Allocate(read.object[c.at + 1], n, c.new),
                          rest |-> Tail(read.rest)],
                         [k \in 1..n |-> k])
  IN [object |-> [read.object EXCEPT ![c.at + 1] = vector.object], rest |-> vector.rest]

Deserialize(read, acts) ==
  FoldLeft(ReadCollection, FoldLeft(ReadAction, read, acts.objects), acts.collections)

----------------------------------------------------------------------------
\* An event's data product: members are told apart by where they are, and by the
\* event; item k of a vector at some depth has vectors of other lengths than the next
RECURSIVE Content(_, _, _, _)
Content(c, event, where, lengths) ==
  LET n == IF lengths = <<>> THEN 0 ELSE (lengths[1] + Last(where)) % (MaxLength + 1)
      deeper == IF lengths = <<>> THEN <<>> ELSE Tail(lengths)
      OfElement(e, i) ==
        CASE e.kind \in {"base", "object"} -> Content(e.class, event, where \o <<i, 0>>, lengths)
          [] e.kind \in {"vector", "builtins"} ->
               << [k \in 1..n |-> Content(e.class, event, where \o <<i, k>>, deeper)] >>
          [] OTHER -> << <<event>> \o where \o <<i>> >>
  IN FlattenSeq([i \in DOMAIN Elements[c] |-> OfElement(Elements[c][i], i)])

Contents(c) == {Content(c, event, <<0>>, lengths) : event \in {1, 2},
                                                    lengths \in [1..2 -> 0..MaxLength]}

Init == /\ class \in Classes
        /\ actions = BuildActionSequence(class)
        /\ product \in Contents(class)
        /\ buffer = <<>>
        /\ object = New(class)
        /\ rest = <<>>
        /\ pc = "serialize"

Goto(from, to) == pc = from /\ pc' = to

SerializeProduct ==
  /\ Goto("serialize", "deserialize")
  /\ buffer' = Serialize(product, actions)
  /\ UNCHANGED <<class, actions, product, object, rest>>

DeserializeProduct ==
  /\ Goto("deserialize", "process")
  /\ LET read == Deserialize([object |-> object, rest |-> buffer], actions)
     IN object' = read.object /\ rest' = read.rest
  /\ UNCHANGED <<class, actions, product, buffer>>

\* the next event; the lane's object stays as it is
NextEvent ==
  /\ Goto("process", "serialize")
  /\ product' \in Contents(class)
  /\ buffer' = <<>>
  /\ UNCHANGED <<class, actions, object, rest>>

Next == SerializeProduct \/ DeserializeProduct \/ NextEvent

Spec == Init /\ [][Next]_vars
----------------------------------------------------------------------------
TypeOK == /\ class \in DOMAIN Elements
          /\ Len(product) = Size(class) /\ Len(object) = Size(class)
          /\ pc \in {"serialize", "deserialize", "process"}

\* unroll_test.cc compares what was read with what was written, for new objects and
\* one value of each class: whatever the lengths of the vectors, and although the
\* lane's object still has the longer or shorter vectors of the event before, it
\* becomes the event's, and nothing of the buffer is left.
ReadsBackWhatWasWritten == pc = "process" => object = product /\ rest = <<>>
=============================================================================
