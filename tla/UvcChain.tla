------------------------------ MODULE UvcChain ------------------------------
(***************************************************************************)
(* How uvcvideo_kmod/uvc_driver.c finds video chains among the units and   *)
(* terminals of a camera: from an output terminal backwards, with what     *)
(* hangs from each entity it comes through.  An entity is in one list by   *)
(* the links that are part of it: adding it again breaks the list it is in *)
(* (but nobody minds if that is the list of a chain that was given up).    *)
(***************************************************************************)
EXTENDS Integers, SequencesExt

-----------------------------------------------------------------------------
\* The entities.  The output bit of the type tells how many of an entity's pads
\* are inputs (uvc_alloc_entity): the others' last one is the source.
IsUnit(e) == e.type \in {"XU", "PU", "SU"}
IsInput(e) == e.type \in {"CAMERA", "MEDIA_IN", "STREAM_IN", "OTHER_IN"}
IsOutput(e) == e.type \in {"DISPLAY", "MEDIA_OUT", "STREAM_OUT", "OTHER_OUT"}

\* A selector with one input is none.
Selects(e) == e.type = "SU" /\ Len(e.sources) # 1

NewEntity(d, type, pads) ==
  [id |-> d.id, type |-> type,
   sources |-> SubSeq(d.sources, 1, IF IsOutput([type |-> type]) THEN pads ELSE pads - 1)]

Adds(p, e) == [p EXCEPT !.entities = Append(@, e)]

\* uvc_parse_vendor_control: Logitech's extension units.  One that is cut short
\* is no descriptor at all.
ParseVendor(p, d) ==
  IF d.complete THEN Adds(p, NewEntity(d, "XU", Len(d.sources) + 1)) ELSE p

\* uvc_parse_standard_control.  A terminal whose type could be confused with a
\* unit is skipped; the header names the streaming interfaces, and these the
\* terminals they belong to.
ParseHeader(p, d) == [p EXCEPT !.streams = @ \cup d.streams]
ParseInput(p, d) == IF d.type = "UNIT" THEN p ELSE Adds(p, NewEntity(d, d.type, 1))
ParseOutput(p, d) == IF d.type = "UNIT" THEN p ELSE Adds(p, NewEntity(d, d.type, 1))
ParseUnit(p, d) == Adds(p, NewEntity(d, d.kind, IF d.kind = "PU" THEN 2 ELSE Len(d.sources) + 1))

\* A descriptor that is cut short ends the parsing: the camera is not used.
ParseOne(p, d) ==
  CASE p.failed -> p
    [] d.kind = "VENDOR" -> ParseVendor(p, d)
    [] d.kind = "UNHEARD_OF" -> p
    [] ~d.complete -> [p EXCEPT !.failed = TRUE]
    [] d.kind = "HEADER" -> ParseHeader(p, d)
    [] d.kind = "INPUT" -> ParseInput(p, d)
    [] d.kind = "OUTPUT" -> ParseOutput(p, d)
    [] OTHER -> ParseUnit(p, d)

\* uvc_parse_control, over the descriptors in their order.
ParseControl(ds) ==
  LET parsed == FoldLeft(ParseOne, [entities |-> <<>>, streams |-> {}, failed |-> FALSE], ds)
  IN IF parsed.failed THEN [parsed EXCEPT !.entities = <<>>] ELSE parsed

References(e, id) == \E i \in DOMAIN e.sources : e.sources[i] = id
Place(entities, id) == SelectInSeq(entities, LAMBDA e : e.id = id)
IsKnown(entities, id) == Place(entities, id) # 0
ById(entities, id) == entities[Place(entities, id)]

-----------------------------------------------------------------------------
\* The scan of one chain: its entities so far, those with links whatever
\* their list, those in this list or that of a chain that is kept, and what was
\* added though it was one of these.
Fails(s) == [s EXCEPT !.failed = TRUE]

Link(s, e) ==
  [s EXCEPT !.chain = Append(@, e.id), !.linked = @ \cup {e.id}, !.listed = @ \cup {e.id},
            !.twice = IF e.id \in s.listed THEN @ \cup {e.id} ELSE @]

\* uvc_scan_chain_entity
ScanEntity(s, e) ==
  CASE e.type \in {"OTHER_IN", "OTHER_OUT"} \/ (e.type = "XU" /\ Len(e.sources) # 1) -> Fails(s)
    [] e.type = "PU" ->
         IF s.processing # 0 THEN Fails(s) ELSE Link([s EXCEPT !.processing = e.id], e)
    [] Selects(e) ->
         IF s.selector # 0 THEN Fails(s) ELSE Link([s EXCEPT !.selector = e.id], e)
    [] OTHER -> Link(s, e)

\* uvc_scan_chain_forward: extension units and output terminals that hang
\* from an entity, except the one the scan has come from.
Forward(s, f, id, prev) ==
  IF s.failed \/ ~References(f, id) \/ f.id = prev THEN s
  ELSE IF (f.type = "XU" /\ Len(f.sources) # 1) \/ f.type = "STREAM_IN" THEN Fails(s)
  ELSE IF f.type = "XU" \/ (IsOutput(f) /\ f.type # "OTHER_OUT") THEN Link(s, f)
  ELSE s

ScanForward(entities, s, e, prev) ==
  LET Each(r, f) == Forward(r, f, e.id, prev) IN FoldLeft(Each, s, entities)

\* Mutant of ScanInputs: the inputs are looked at and not taken into the chain.
InputsLookedAt(entities, s, e) ==
  LET Each(r, id) == IF IsKnown(entities, id) THEN r ELSE Fails(r)
  IN [FoldLeft(Each, s, e.sources) EXCEPT !.next = 0]

\* uvc_scan_chain_backward: the next entity, 0 at the end.  The inputs of a
\* selector end the chain; that their forward scan fails is not noticed.
TakeInput(entities, s, id, selector) ==
  IF s.failed \/ ~IsKnown(entities, id) \/ ~IsInput(ById(entities, id)) THEN Fails(s)
  ELSE LET input == ById(entities, id)
       IN [ScanForward(entities, Link(s, input), input, selector) EXCEPT !.failed = FALSE]

ScanInputs(entities, s, e) ==
  LET Each(r, id) == TakeInput(entities, r, id, e.id)
  IN [FoldLeft(Each, s, e.sources) EXCEPT !.next = 0]

ScanBackward(entities, s, e) ==
  LET source == IF e.sources = <<>> \/ IsInput(e) THEN 0 ELSE e.sources[1]
  IN IF Selects(e) THEN ScanInputs(entities, s, e)
     ELSE IF source # 0 /\ ~IsKnown(entities, source) THEN Fails(s)
     ELSE [s EXCEPT !.next = source]

\* uvc_scan_chain, one turn of its loop: the entity, what hangs from it, and back.
ScanEach(entities, s, e) ==
  LET own == ScanEntity(s, e)
      forward == IF own.failed THEN own ELSE ScanForward(entities, own, e, s.prev)
  IN IF forward.failed THEN forward
     ELSE ScanBackward(entities, [forward EXCEPT !.prev = e.id], e)

\* Mutant of ScanOne: an entity that is in a chain already is scanned again.
ScanAgain(entities, s) ==
  IF s.failed \/ s.next = 0 THEN s ELSE ScanEach(entities, s, ById(entities, s.next))

ScanOne(entities, s) ==
  IF s.failed \/ s.next = 0 THEN s
  ELSE IF s.next \in s.linked THEN Fails(s)
  ELSE ScanEach(entities, s, ById(entities, s.next))

\* uvc_scan_device: from each output terminal that has no links yet.  A chain
\* that is no good is freed, the links into it stay.
Kept(chains) == UNION {ToSet(chains[i]) : i \in DOMAIN chains}

Begin(d, term) ==
  [chain |-> <<>>, linked |-> d.linked, listed |-> Kept(d.chains), twice |-> d.twice,
   failed |-> FALSE, processing |-> 0, selector |-> 0, next |-> term.id, prev |-> 0]

ScanChain(entities, s) ==
  LET Each(r, n) == ScanOne(entities, r)
  IN FoldLeft(Each, s, [n \in 1 .. Len(entities) + 1 |-> n])

ScanFrom(entities, d, term) ==
  IF ~IsOutput(term) \/ term.id \in d.linked THEN d
  ELSE LET s == ScanChain(entities, Begin(d, term))
       IN IF s.failed
          THEN [d EXCEPT !.linked = s.linked, !.twice = s.twice \cap Kept(d.chains)]
          ELSE [linked |-> s.linked, twice |-> s.twice, chains |-> Append(d.chains, s.chain)]

ScanDevice(entities) ==
  LET Each(d, term) == ScanFrom(entities, d, term)
  IN FoldLeft(Each, [linked |-> {}, twice |-> {}, chains |-> <<>>], entities)

-----------------------------------------------------------------------------
\* uvc_mc_register_entity: a link from each source of an entity to it, made
\* when the entities of its chain have been initialised.
MediaLinks(entities, chain) ==
  UNION {ToSet(ById(entities, id).sources) \X {id} : id \in ToSet(chain)}

-----------------------------------------------------------------------------
\* What the chains of a camera are good for: an id names one entity, and the
\* inputs of a selector with several are different, and hang from it alone.  The
\* rest is what the parsing makes of any descriptors without a zero in them.
Entity == [id : Nat \ {0}, type : STRING, sources : Seq(Nat \ {0})]

Plain(e) ==
  /\ IsUnit(e) \/ IsInput(e) \/ IsOutput(e)
  /\ IsInput(e) => e.sources = <<>>
  /\ IsOutput(e) \/ e.type = "PU" => Len(e.sources) <= 1

Sensible(entities) ==
  /\ entities \in Seq(Entity)
  /\ \A i \in DOMAIN entities : Plain(entities[i])
  /\ \A i, j \in DOMAIN entities : entities[i].id = entities[j].id => i = j
  /\ \A i, j \in DOMAIN entities :
       Selects(entities[i]) =>
         /\ IsInjective(entities[i].sources)
         /\ \A n \in DOMAIN entities[i].sources :
              References(entities[j], entities[i].sources[n]) => i = j
=============================================================================
