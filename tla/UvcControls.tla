---------------------------- MODULE UvcControls -----------------------------
(***************************************************************************)
(* What uvcvideo_kmod/uvc_ctrl.c knows of the controls of a camera before  *)
(* it has asked one: the table uvc_ctrls of the controls of processing     *)
(* units and camera terminals, the table uvc_ctrl_mappings of the bit      *)
(* strings in them that are V4L2 controls, and the arithmetic of a set.    *)
(***************************************************************************)
EXTENDS Integers, SequencesExt

-----------------------------------------------------------------------------
\* uvc_ctrls: the unit, the bit in bmControls, the size in bytes, the flags.
Info(entity, index, size, flags) ==
  [entity |-> entity, index |-> index, size |-> size, flags |-> flags]

Bounds == {"GET_MIN", "GET_MAX", "GET_RES", "GET_DEF"}
Ranged == {"SET_CUR", "GET_CUR", "RESTORE"} \cup Bounds
RangedAuto == Ranged \cup {"AUTO_UPDATE"}
Switch == {"SET_CUR", "GET_CUR", "GET_DEF", "RESTORE"}
Relative == {"SET_CUR", "AUTO_UPDATE"} \cup Bounds

processing_ctrls == [
  BRIGHTNESS |-> Info("PU", 0, 2, Ranged),
  CONTRAST |-> Info("PU", 1, 2, Ranged),
  HUE |-> Info("PU", 2, 2, RangedAuto),
  SATURATION |-> Info("PU", 3, 2, Ranged),
  SHARPNESS |-> Info("PU", 4, 2, Ranged),
  GAMMA |-> Info("PU", 5, 2, Ranged),
  WHITE_BALANCE_TEMPERATURE |-> Info("PU", 6, 2, RangedAuto),
  WHITE_BALANCE_COMPONENT |-> Info("PU", 7, 4, RangedAuto),
  BACKLIGHT_COMPENSATION |-> Info("PU", 8, 2, Ranged),
  GAIN |-> Info("PU", 9, 2, Ranged),
  POWER_LINE_FREQUENCY |-> Info("PU", 10, 1, Switch),
  HUE_AUTO |-> Info("PU", 11, 1, Switch),
  WHITE_BALANCE_TEMPERATURE_AUTO |-> Info("PU", 12, 1, Switch),
  WHITE_BALANCE_COMPONENT_AUTO |-> Info("PU", 13, 1, Switch),
  DIGITAL_MULTIPLIER |-> Info("PU", 14, 2, Ranged),
  DIGITAL_MULTIPLIER_LIMIT |-> Info("PU", 15, 2, Ranged),
  ANALOG_VIDEO_STANDARD |-> Info("PU", 16, 1, {"GET_CUR"}),
  ANALOG_LOCK_STATUS |-> Info("PU", 17, 1, {"GET_CUR"})]

camera_ctrls == [
  SCANNING_MODE |-> Info("CT", 0, 1, Switch \ {"GET_DEF"}),
  AE_MODE |-> Info("CT", 1, 1, Switch \cup {"GET_RES"}),
  AE_PRIORITY |-> Info("CT", 2, 1, Switch \ {"GET_DEF"}),
  EXPOSURE_TIME_ABSOLUTE |-> Info("CT", 3, 4, Ranged),
  EXPOSURE_TIME_RELATIVE |-> Info("CT", 4, 1, {"SET_CUR", "RESTORE"}),
  FOCUS_ABSOLUTE |-> Info("CT", 5, 2, RangedAuto),
  FOCUS_RELATIVE |-> Info("CT", 6, 2, Relative),
  IRIS_ABSOLUTE |-> Info("CT", 7, 2, RangedAuto),
  IRIS_RELATIVE |-> Info("CT", 8, 1, {"SET_CUR", "AUTO_UPDATE"}),
  ZOOM_ABSOLUTE |-> Info("CT", 9, 2, RangedAuto),
  ZOOM_RELATIVE |-> Info("CT", 10, 3, Relative),
  PANTILT_ABSOLUTE |-> Info("CT", 11, 8, RangedAuto),
  PANTILT_RELATIVE |-> Info("CT", 12, 4, Relative),
  ROLL_ABSOLUTE |-> Info("CT", 13, 2, RangedAuto),
  ROLL_RELATIVE |-> Info("CT", 14, 2, Relative),
  FOCUS_AUTO |-> Info("CT", 17, 1, Switch),
  PRIVACY |-> Info("CT", 18, 1, (Switch \ {"GET_DEF"}) \cup {"AUTO_UPDATE"})]

uvc_ctrls == processing_ctrls @@ camera_ctrls

-----------------------------------------------------------------------------
\* uvc_ctrl_mappings: the control, the bits of it, how a value is read.  The
\* two mappings of V4L2_CID_AUTO_WHITE_BALANCE have a name each, and one id.
None == "none"
Map(control, size, offset, type, data) ==
  [control |-> control, size |-> size, offset |-> offset, type |-> type,
   data |-> data, master |-> None, slaves |-> {}]
SlaveOf(map, master) == [map EXCEPT !.master = master]
MasterOf(map, slaves) == [map EXCEPT !.slaves = slaves]
Whole(control, data) == Map(control, 16, 0, "integer", data)
OneBit(control) == Map(control, 1, 0, "boolean", "boolean")

first_mappings == [
  Brightness |-> Whole("BRIGHTNESS", "signed"),
  Contrast |-> Whole("CONTRAST", "unsigned"),
  Hue |-> SlaveOf(Whole("HUE", "signed"), "HueAuto"),
  Saturation |-> Whole("SATURATION", "unsigned"),
  Sharpness |-> Whole("SHARPNESS", "unsigned"),
  Gamma |-> Whole("GAMMA", "unsigned"),
  BacklightCompensation |-> Whole("BACKLIGHT_COMPENSATION", "unsigned"),
  Gain |-> Whole("GAIN", "unsigned"),
  PowerLineFrequency |-> Map("POWER_LINE_FREQUENCY", 2, 0, "menu", "enum"),
  HueAuto |-> MasterOf(OneBit("HUE_AUTO"), {"Hue"}),
  ExposureAuto |->
    MasterOf(Map("AE_MODE", 4, 0, "menu", "bitmask"), {"ExposureAbsolute"}),
  ExposureAutoPriority |-> OneBit("AE_PRIORITY"),
  ExposureAbsolute |-> SlaveOf(
    Map("EXPOSURE_TIME_ABSOLUTE", 32, 0, "integer", "unsigned"), "ExposureAuto"),
  AutoWhiteBalance |-> MasterOf(OneBit("WHITE_BALANCE_TEMPERATURE_AUTO"),
                                {"WhiteBalanceTemperature"})]

last_mappings == [
  WhiteBalanceTemperature |-> SlaveOf(
    Whole("WHITE_BALANCE_TEMPERATURE", "unsigned"), "AutoWhiteBalance"),
  AutoWhiteBalanceComponent |-> MasterOf(OneBit("WHITE_BALANCE_COMPONENT_AUTO"),
                                         {"BlueBalance", "RedBalance"}),
  BlueBalance |-> SlaveOf(Whole("WHITE_BALANCE_COMPONENT", "signed"),
                          "AutoWhiteBalanceComponent"),
  RedBalance |-> SlaveOf(
    Map("WHITE_BALANCE_COMPONENT", 16, 16, "integer", "signed"),
    "AutoWhiteBalanceComponent"),
  FocusAbsolute |-> SlaveOf(Whole("FOCUS_ABSOLUTE", "unsigned"), "FocusAuto"),
  FocusAuto |-> MasterOf(OneBit("FOCUS_AUTO"), {"FocusAbsolute"}),
  IrisAbsolute |-> Whole("IRIS_ABSOLUTE", "unsigned"),
  IrisRelative |-> Map("IRIS_RELATIVE", 8, 0, "integer", "signed"),
  ZoomAbsolute |-> Whole("ZOOM_ABSOLUTE", "unsigned"),
  ZoomContinuous |-> Map("ZOOM_RELATIVE", 0, 0, "integer", "signed"),
  PanAbsolute |-> Map("PANTILT_ABSOLUTE", 32, 0, "integer", "signed"),
  TiltAbsolute |-> Map("PANTILT_ABSOLUTE", 32, 32, "integer", "signed"),
  Privacy |-> OneBit("PRIVACY")]

uvc_ctrl_mappings == first_mappings @@ last_mappings

Mapping(field) == uvc_ctrl_mappings[field]
ControlOf(field) == Mapping(field).control
IndexOf(field) == uvc_ctrls[ControlOf(field)].index
Id(field) == IF field = "AutoWhiteBalanceComponent" THEN "AutoWhiteBalance" ELSE field
Has(control, flag) == flag \in uvc_ctrls[control].flags

\* A set of such a control need not read the rest of it first.
SpansControl(field) == uvc_ctrls[ControlOf(field)].size * 8 = Mapping(field).size

-----------------------------------------------------------------------------
\* uvc_ctrl_prune_entity: controls that crash a camera, or always fail.
Bogus(product, type) ==
  CASE type = "PU" /\ product = "13d3:509b" -> {9}
    [] type = "PU" /\ product = "1c4f:3000" -> {6}
    [] type = "PU" /\ product = "5986:0241" -> {2}
    [] type = "CT" /\ product = "06f8:3005" -> {9}
    [] OTHER -> {}

\* uvc_ctrl_init_ctrl: the control of the table that a bit stands for, if any.
\* Those of an extension unit wait for their first use.
InitCtrl(type, index) ==
  SetToSeq({c \in DOMAIN uvc_ctrls : uvc_ctrls[c].entity = type /\ uvc_ctrls[c].index = index})

\* uvc_ctrl_init_device: the controls, by entity and by the bits of bmControls.
InitDevice(entities, product) ==
  LET Bits(e) == SetToSortSeq(e.bmControls \ Bogus(product, e.type), <)
      Controls(e) == FlattenSeq([n \in DOMAIN Bits(e) |-> InitCtrl(e.type, Bits(e)[n])])
  IN FlattenSeq([n \in DOMAIN entities |-> Controls(entities[n])])

-----------------------------------------------------------------------------
\* Where uvc_set_le_value puts the bits: the bit of the value that arrives at
\* a bit of the control.  After the first byte the value is shifted by the
\* offset, or by 8 when that is 0.
StoredBit(offset, bit) ==
  LET within == offset % 8
      byte == (bit \div 8) - (offset \div 8)
  IN IF byte = 0 THEN (bit % 8) - within
     ELSE (IF within = 0 THEN 8 ELSE within) + 8 * (byte - 1) + (bit % 8)

\* The clamp of uvc_ctrl_set for integers, in words of so many values.
Unsigned(v, words) == v % words
Signed(v, words) == IF v % words >= words \div 2 THEN (v % words) - words ELSE v % words
Between(v, low, high) == IF v < low THEN low ELSE IF v > high THEN high ELSE v

Clamp(value, r, signed, words) ==
  LET step == IF r.step = 0 THEN 1 ELSE r.step
      steps == Unsigned(Unsigned(value - r.min, words) + step \div 2, words) \div step
      rounded == Signed(r.min + steps * step, words)
  IN IF signed THEN Between(rounded, r.min, r.max)
     ELSE Between(Unsigned(rounded, words), r.min, r.max)

\* A slave names the master that names it; a mapping is inside its control,
\* two of one control have no bit in common, and every bit of a value is
\* stored where it belongs.  (uvc_ctrls and uvc_ctrl_mappings;
\* uvc_set_le_value shifts by the offset where 8 less the offset is meant.)
ASSUME TablesAgree ==
  \A f, g \in DOMAIN uvc_ctrl_mappings :
    LET m == Mapping(f)  n == Mapping(g)
    IN /\ m.master = g <=> f \in n.slaves
       /\ m.offset + m.size <= 8 * uvc_ctrls[m.control].size
       /\ m.control = n.control /\ f # g =>
            m.offset + m.size <= n.offset \/ n.offset + n.size <= m.offset
       /\ \A i \in 0 .. m.size - 1 : StoredBit(m.offset, m.offset + i) = i

\* What covers a control is alone in it, what shares one can be read before it is
\* set, and what can be set is restored unless it changes by itself.
ASSUME FlagsAgree ==
  /\ \A f, g \in DOMAIN uvc_ctrl_mappings :
       ControlOf(f) = ControlOf(g) /\ f # g => ~SpansControl(f) /\ Has(ControlOf(f), "GET_CUR")
  /\ \A c \in DOMAIN uvc_ctrls :
       Has(c, "SET_CUR") => Has(c, "RESTORE") \/ Has(c, "AUTO_UPDATE")
=============================================================================
