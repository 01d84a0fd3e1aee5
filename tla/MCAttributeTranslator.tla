------------------------ MODULE MCAttributeTranslator ------------------------
(* Two device endpoints and two Matter endpoints.  The attributes are those   *)
(* Unify has and the generated tables translate, each reduced to what the     *)
(* translator does with it.  Values are two bits wide: 0, 1, the largest      *)
(* ordinary one and the one reserved for null.                                *)
EXTENDS AttributeTranslator, AttributeTables

Described(c, a) ==
  [kind |-> KindOf(TypeOf(c, a)), nullable |-> IsNullable(c, a), words |-> Words(c, a, Reserved),
   moved |-> MovedOffNull(c, a), floor |-> HasFloor(c, a), ceiling |-> HasCeiling(c, a),
   writable |-> a \in Writable[c] \ Emulated(c)]

(* Emulated attributes that are not read from the cache, or that commands set. *)
Detached == DoorLockEmulated \cup IdentifyEmulated \cup WindowCoveringEmulated

MCAttributes ==
  UNION { {Described(c, a) : a \in (Mapped[c] \cap Reported[c]) \ Detached} : c \in Clusters }

(* Every shape, known and unknown texts and fields, the reserved number.      *)
MCSent ==
  {<<"number", 0>>, <<"number", 1>>, <<"number", 3>>, <<"boolean", 1>>, <<"text", 0>>,
   <<"text", 1>>, <<"text", 4>>, <<"object", 5>>, <<"null", 0>>}
MCWritten == {1, 3, NullRead, Garbled}
=============================================================================
