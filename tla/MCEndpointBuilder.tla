---------------------------- MODULE MCEndpointBuilder ----------------------------
(* Endpoints made of the clusters the bridge knows, with all their attributes  *)
(* and commands, with few of them, or with the commands in another order, and  *)
(* of clusters it does not know or skips.                                      *)
EXTENDS EndpointBuilder

AttributesKnown(c) == {UnifyAttribute(a) : a \in Mapped[c]} \cup {"Unmapped"}
CommandsKnown(c) ==
  LET Listed(u, commands) == Append(commands, u)
  IN FoldSet(Listed, <<>>, (CommandNames[c] \ Responses) \cup {"Unmapped"})

A(name, attributes, commands) ==
  [name |-> name, attributes |-> attributes, commands |-> commands]

Full(c) == A(UnifyCluster(c), AttributesKnown(c), CommandsKnown(c))
Reordered(c) == A(UnifyCluster(c), AttributesKnown(c), Reverse(CommandsKnown(c)))
Attributeless(c) == A(UnifyCluster(c), {}, CommandsKnown(c))

Toggling == A("OnOff", {"OnOff"}, <<"Toggle", "Off", "On">>)
Switching == A("OnOff", AttributesKnown("OnOff"), <<"On", "Off">>)
Lifting == A("WindowCovering", {"CurrentPositionLiftPercentage"}, <<"UpOrOpen", "Stop">>)
(* All a dimmable type needs, without and with a ninth command.               *)
Dimming(last) ==
  A("Level", AttributesKnown("LevelControl"),
    <<"MoveToLevel", "Move", "Step", "Stop", "MoveToLevelWithOnOff", "MoveWithOnOff",
      "StepWithOnOff">> \o last)

Unknown == A("Scenes", {"SceneCount"}, <<"AddScene">>)
Naming == A("NameAndLocation", {"Name"}, <<"WriteAttributes">>)
Basics == A("Basic", {"PhysicalEnvironment", "DeviceEnabled", "ZCLVersion"}, <<>>)

Either(clusters) == {{}} \cup {{k} : k \in clusters}

Lights ==
  {i \cup g \cup o \cup l \cup s \cup c :
     i \in Either({Full("Identify")}), g \in Either({Full("Groups")}),
     o \in Either({Full("OnOff"), Toggling, Switching}),
     l \in Either({Full("LevelControl"), Reordered("LevelControl"), Attributeless("LevelControl"),
                   Dimming(<<"StopWithOnOff">>), Dimming(<<"MoveToClosestFrequency">>)}),
     s \in Either({Full("OccupancySensing")}),
     c \in Either({Full("ColorControl"), Reordered("ColorControl")})}

Others ==
  {i \cup g \cup {k} \cup x :
     i \in Either({Full("Identify")}), g \in Either({Full("Groups")}),
     k \in {Full(c) : c \in Clusters} \cup {Lifting},
     x \in {{}, {Basics}, {Unknown, Naming}, {Basics, Full("TemperatureMeasurement")}}}

MCDevices == {d \in Lights \cup Others : \A k, l \in d : k.name = l.name => k = l}
MCBeyond == {{}, {"Off", "MoveToLevel", "MoveToHue"}, UNION {Invoked[c] : c \in Clusters}}
=============================================================================
