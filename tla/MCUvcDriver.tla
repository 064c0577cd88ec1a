---------------------------- MODULE MCUvcDriver -----------------------------
(* Small cameras for UvcDriver.                                            *)
EXTENDS UvcDriver

D(kind, id, type, sources, complete) ==
  [kind |-> kind, id |-> id, type |-> type, sources |-> sources, complete |-> complete]

\* A descriptor as the type of its entity has it, and the header.
KindOf(type) ==
  CASE IsInput([type |-> type]) -> "INPUT"
    [] IsOutput([type |-> type]) -> "OUTPUT"
    [] OTHER -> type
E(id, type, sources) == D(KindOf(type), id, type, sources, TRUE)
Header(ids) == [kind |-> "HEADER", complete |-> TRUE, streams |-> ids]
Ambiguous(kind, id) == D(kind, id, "UNIT", <<1>>, TRUE)

\* A webcam, as most and as Logitech's are, with a terminal that is no terminal;
\* the chain of uvc_scan_chain_entity's comment, with a selector, an extension
\* unit in the way and one at the side; two outputs of one chain, and only one
\* of them with a stream.
Webcam == <<Header({3}), E(1, "CAMERA", <<>>), E(2, "PU", <<1>>), E(3, "STREAM_OUT", <<2>>)>>
Logitech == <<Header({3}), E(1, "CAMERA", <<>>), E(2, "PU", <<1>>), D("VENDOR", 4, "XU", <<2>>, TRUE),
              D("VENDOR", 5, "XU", <<2>>, FALSE), E(3, "STREAM_OUT", <<4>>),
              Ambiguous("INPUT", 6), Ambiguous("OUTPUT", 7), D("UNHEARD_OF", 8, "UNIT", <<>>, TRUE)>>
Selected == <<Header({7}), E(1, "CAMERA", <<>>), E(2, "MEDIA_IN", <<>>), E(3, "SU", <<1, 2>>),
              E(4, "PU", <<3>>), E(5, "XU", <<4>>), E(6, "XU", <<4>>), E(7, "STREAM_OUT", <<5>>)>>
TwoOutputs == <<Header({4, 5}), E(1, "CAMERA", <<>>), E(2, "SU", <<1>>), E(3, "PU", <<2>>),
                E(4, "STREAM_OUT", <<3>>), E(5, "STREAM_OUT", <<3>>)>>
OneStream == <<Header({5})>> \o Tail(TwoOutputs)
TwoChains == <<Header({2, 3}), E(1, "CAMERA", <<>>), E(2, "STREAM_OUT", <<1>>),
               E(3, "STREAM_IN", <<>>), E(4, "PU", <<3>>), E(5, "DISPLAY", <<4>>)>>

\* No chain: a loop, a terminal nobody knows, two processing units, an unknown
\* source, a side branch that is taken for a chain, a descriptor cut short; and
\* one whose first chain is given up, so that the second takes a unit from it.
Loop == <<E(1, "XU", <<2>>), E(2, "XU", <<1>>), E(3, "STREAM_OUT", <<1>>)>>
Unknown == <<E(1, "OTHER_IN", <<>>), E(2, "STREAM_OUT", <<1>>), E(3, "OTHER_OUT", <<1>>)>>
TwoUnits == <<E(1, "CAMERA", <<>>), E(2, "PU", <<1>>), E(3, "PU", <<2>>), E(4, "STREAM_OUT", <<3>>)>>
Missing == <<E(1, "XU", <<8>>), E(2, "STREAM_OUT", <<1>>)>>
Branch == <<Header({3}), E(1, "CAMERA", <<>>), E(2, "PU", <<1>>), E(3, "STREAM_OUT", <<2>>),
            E(4, "XU", <<2>>), E(5, "DISPLAY", <<4>>)>>
Retaken == <<Header({1, 2}), E(1, "STREAM_OUT", <<3>>), E(2, "STREAM_OUT", <<4>>), E(3, "XU", <<4>>),
             E(4, "CAMERA", <<>>), E(5, "XU", <<3, 4>>)>>
CutShort == Append(Webcam, D("PU", 4, "PU", <<3>>, FALSE))

Samples ==
  {Webcam, Logitech, Selected, TwoOutputs, OneStream, TwoChains, Loop, Unknown, TwoUnits, Missing,
   Branch, Retaken, CutShort}

\* Every way to put two entities between an output and a camera, if what a
\* selector selects is not used elsewhere.
Pairs == {p \in (2 .. 4) \X (2 .. 4) : p[1] # p[2]}
Between(id) ==
  {E(id, type, <<s>>) : type \in {"PU", "XU", "DISPLAY"}, s \in 2 .. 4}
    \cup {E(id, "SU", p) : p \in Pairs}
Small ==
  {ds \in {<<Header({1}), E(1, "STREAM_OUT", <<s>>), e, f, E(4, "CAMERA", <<>>)>> :
              s \in 2 .. 4, e \in Between(2), f \in Between(3)} :
     Sensible(ParseControl(ds).entities)}

SomeCameras == Samples \cup Small

\* The theorem about chains is about these, too.
ASSUME SomeAreSensible == \A ds \in Samples : Sensible(ParseControl(ds).entities)
=============================================================================
