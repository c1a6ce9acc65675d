------------------------------ MODULE MCEvents ------------------------------
(***************************************************************************)
(* Two handlers and two listeners. The container's id is <<1, 2>>, its name *)
(* <<7>>; a client may use either, or a prefix of the id, to refer to it.  *)
(***************************************************************************)
EXTENDS EventBus

CONSTANTS p1, p2, s1, s2

ById == [NoFilter EXCEPT !.actors.container = {<<1>>}]
Deaths == [NoFilter EXCEPT !.types = {"container"}, !.actions = {"die"}]
OfImage == [NoFilter EXCEPT !.labels = {[key |-> "image", hasValue |-> TRUE, value |-> <<8>>]}]

Valid(f) == [valid |-> TRUE, filters |-> f]
Garbled == [valid |-> FALSE, filters |-> NoFilter]

Setup(a, b, c, d) ==
  [script |-> [p \in Publishers |-> IF p = p1 THEN a ELSE b],
   query |-> [s \in Subscribers |-> IF s = s1 THEN c ELSE d]]

SomeSetups == {
  Setup(ContainerStop(<<1, 2>>), VolumeDelete(<<7>>), Valid(NoFilter), Valid(ById)),
  Setup(ContainerKill(<<7>>, <<9>>), ContainerCreate(<<1, 2>>, <<7>>, <<8>>), Valid(Deaths), Valid(OfImage)),
  Setup(ContainerKill(<<7>>, <<9>>), ImageTag(<<8>>, <<9>>), Valid(NoFilter), Garbled) }
=============================================================================
