---------------------------- MODULE Em28xxBoards ---------------------------
(***************************************************************************)
(* Which board an em28xx USB device is: the interface and its endpoints,   *)
(* the table of USB IDs, the table of boards, and the hints by which the   *)
(* driver tells the boards apart that share an ID.  The frontends that     *)
(* em28xx-dvb.c knows are in Em28xxLife.                                   *)
(*                                                                         *)
(* Of an entry of em28xx_boards[] the model keeps whether it is a webcam   *)
(* or has DVB, the tuner where a hint names one, and def_i2c_bus.          *)
(***************************************************************************)
EXTENDS Em28xxLife, FiniteSets

CONSTANT SeenMax   \* bound: endpoints of an interface, its settings one after the other

ASSUME SeenAssumption == SeenMax \in Nat

Row(kind, tunerType, bus, models) == [m \in models |-> [kind |-> kind, tuner |-> tunerType, bus |-> bus]]

Rows1 == Row("webcam", "absent", 0, {"EM2750_UNKNOWN", "EM2820_UNKNOWN", "EM2750_DLCW_130"})
      ++ Row("analog", "absent", 0, {"EM2800_UNKNOWN"})
      ++ Row("analog", "other", 0, {"EM2820_KWORLD_PVRTV2800RF", "EM2820_HAUPPAUGE_WINTV_USB_2"})
      ++ Row("analog", "LG_PAL", 0, {"EM2820_GADMEI_TVR200", "EM2820_TERRATEC_CINERGY_250", "EM2820_PINNACLE_USB_2"})
Rows2 == Row("analog", "LG_PAL", 0, {"EM2820_DLINK_USB_TV", "EM2820_HERCULES_SMART_TV_USB2"})
      ++ Row("analog", "other", 0, {"EM2820_PINNACLE_USB_2_FM1216ME", "EM2820_LEADTEK_WINFAST_USBII_DELUXE"})
      ++ Row("analog", "TNF", 0, {"EM2820_GADMEI_UTV310"})
      ++ Row("webcam", "absent", 0, {"EM2820_VIDEOLOGY_20K14XUSB", "EM2820_SILVERCREST_WEBCAM"})
Rows3 == Row("analog", "other", 0, {"EM2821_SUPERCOMP_USB_2"})
      ++ Row("analog", "absent", 0, {"EM2821_USBGEAR_VD204", "EM2860_TYPHOON_DVD_MAKER"})
      ++ Row("webcam", "absent", 0, {"EM2860_NETGMBH_CAM"})
      ++ Row("analog", "TNF", 0, {"EM2860_GADMEI_UTV330", "EM2861_GADMEI_UTV330PLUS"})
      ++ Row("analog", "XC2028", 0, {"EM2860_TERRATEC_HYBRID_XS", "EM2861_KWORLD_PVRTV_300U"})
Rows4 == Row("analog", "absent", 0, {"EM2861_YAKUMO_MOVIE_MIXER", "EM2860_TVP5150_REFERENCE_DESIGN",
             "EM2870_TERRATEC_XS_MT2060", "EM2870_PINNACLE_PCTV_DVB", "EM2870_COMPRO_VIDEOMATE"})
      ++ Row("analog", "TNF", 0, {"EM2861_PLEXTOR_PX_TV100U"})
      ++ Row("analog", "XC2028", 0, {"EM2870_TERRATEC_XS", "EM2870_KWORLD_350U"})
      ++ Row("dvb", "absent", 0, {"EM2870_KWORLD_355U"})
      ++ Row("dvb", "XC2028", 0, {"EM2880_TERRATEC_HYBRID_XS_FR"})
      ++ Row("dvb", "absent", 1, {"EM2884_TERRATEC_H5"})
Rows5 == Row("dvb", "absent", 1, {"EM2884_HAUPPAUGE_WINTV_HVR_930C", "EM2884_C3TECH_DIGITAL_DUO",
             "EM2884_CINERGY_HTC_STICK", "EM2884_ELGATO_EYETV_HYBRID_2008"})
      ++ Row("dvb", "XC2028", 0, {"EM2880_HAUPPAUGE_WINTV_HVR_900", "EM2880_HAUPPAUGE_WINTV_HVR_900_R2",
             "EM2883_HAUPPAUGE_WINTV_HVR_850", "EM2883_HAUPPAUGE_WINTV_HVR_950"})
Rows6 == Row("dvb", "XC2028", 0, {"EM2880_PINNACLE_PCTV_HD_PRO", "EM2880_AMD_ATI_TV_WONDER_HD_600",
             "EM2880_TERRATEC_HYBRID_XS"})
      ++ Row("analog", "XC2028", 0, {"EM2880_TERRATEC_PRODIGY_XS"})
      ++ Row("analog", "LG_PAL", 0, {"EM2820_MSI_VOX_USB_2"})
      ++ Row("analog", "LG_TALN", 0, {"EM2800_TERRATEC_CINERGY_200"})
Rows7 == Row("analog", "absent", 0, {"EM2800_GRABBEEX_USB2800", "EM2800_VC211A", "EM2820_PINNACLE_DVC_90"})
      ++ Row("analog", "LG_PAL", 0, {"EM2800_LEADTEK_WINFAST_USBII", "EM2800_VGEAR_POCKETTV"})
      ++ Row("analog", "other", 0, {"EM2800_KWORLD_USB2800"})
      ++ Row("analog", "YMEC", 0, {"EM2820_PROLINK_PLAYTV_BOX4_USB2", "EM2820_PROLINK_PLAYTV_USB2"})
Rows8 == Row("analog", "absent", 0, {"EM2860_SAA711X_REFERENCE_DESIGN"})
      ++ Row("dvb", "absent", 1, {"EM2874_LEADERSHIP_ISDBT"})
      ++ Row("analog", "XC2028", 0, {"EM2880_MSI_DIGIVOX_AD", "EM2880_MSI_DIGIVOX_AD_II", "EM2880_KWORLD_DVB_305U"})
      ++ Row("dvb", "XC2028", 0, {"EM2880_KWORLD_DVB_310U"})
      ++ Row("dvb", "other", 0, {"EM2882_KWORLD_ATSC_315U"})
Rows9 == Row("dvb", "XC2028", 0, {"EM2880_EMPIRE_DUAL_TV", "EM2881_PINNACLE_HYBRID_PRO",
             "EM2882_PINNACLE_HYBRID_PRO_330E", "EM2882_KWORLD_VS_DVBT", "EM2882_TERRATEC_HYBRID_XS"})
      ++ Row("analog", "XC2028", 0, {"EM2881_DNT_DA2_HYBRID"})
Rows10 == Row("dvb", "XC2028", 0, {"EM2882_DIKOM_DK300", "EM2883_KWORLD_HYBRID_330U"})
       ++ Row("analog", "LG_PAL", 0, {"EM2820_COMPRO_VIDEOMATE_FORYOU"})
       ++ Row("analog", "XC2028", 0, {"EM2860_KAIOMY_TVNPC_U2"})
       ++ Row("analog", "absent", 0, {"EM2860_EASYCAP", "EM2860_TERRATEC_GRABBY"})
       ++ Row("analog", "other", 0, {"EM2820_IODATA_GVMVP_SZ"})
Rows11 == Row("analog", "absent", 0, {"EM2860_TERRATEC_AV350", "EM2860_ELGATO_VIDEO_CAPTURE", "EM2860_HT_VIDBOX_NW03"})
       ++ Row("dvb", "XC2028", 0, {"EM2882_EVGA_INDTUBE"})
       ++ Row("dvb", "absent", 0, {"EM2870_REDDO_DVB_C_USB_BOX", "EM2870_KWORLD_A340"})
       ++ Row("dvb", "absent", 1, {"EM28174_PCTV_290E", "EM28174_PCTV_460E", "EM2874_MAXMEDIA_UB425_TC",
              "EM2884_PCTV_510E"})
Rows12 == Row("dvb", "absent", 1, {"EM2884_PCTV_520E", "EM2884_TERRATEC_HTC_USB_XS", "EM2874_DELOCK_61959",
              "EM2874_KWORLD_UB435Q_V2", "EM2874_KWORLD_UB435Q_V3", "EM28178_PCTV_461E",
              "EM28178_PCTV_292E", "EM28178_TERRATEC_T2_STICK_HD", "EM28178_PLEX_PX_BCUD"})
       ++ Row("dvb", "absent", 0, {"EM2874_PCTV_HD_MINI_80E"})
       ++ Row("webcam", "absent", 1, {"EM2765_SPEEDLINK_VAD_LAPLACE"})
       ++ Row("analog", "absent", 0, {"EM2861_LEADTEK_VC100"})
Table == Rows1 ++ Rows2 ++ Rows3 ++ Rows4 ++ Rows5 ++ Rows6 ++ Rows7 ++ Rows8 ++ Rows9 ++ Rows10 ++ Rows11 ++ Rows12

Ids1 == {"EM2750_UNKNOWN", "EM2800_UNKNOWN", "EM2820_UNKNOWN", "EM2884_TERRATEC_H5",
         "EM2861_KWORLD_PVRTV_300U", "EM2860_KAIOMY_TVNPC_U2", "EM2880_KWORLD_DVB_305U",
         "EM2880_MSI_DIGIVOX_AD", "EM2882_KWORLD_ATSC_315U", "EM2883_KWORLD_HYBRID_330U",
         "EM2880_MSI_DIGIVOX_AD_II", "EM2882_KWORLD_VS_DVBT", "EM2870_KWORLD_350U",
         "EM2870_KWORLD_355U", "EM2800_GRABBEEX_USB2800", "EM2820_PINNACLE_DVC_90",
         "EM2820_TERRATEC_CINERGY_250", "EM2880_TERRATEC_HYBRID_XS_FR",
         "EM2860_TERRATEC_HYBRID_XS", "EM2882_TERRATEC_HYBRID_XS", "EM2870_TERRATEC_XS",
         "EM2884_TERRATEC_HTC_USB_XS", "EM2860_TERRATEC_AV350", "EM2860_TERRATEC_GRABBY"}
Ids2 == {"EM2884_CINERGY_HTC_STICK", "EM2884_ELGATO_EYETV_HYBRID_2008",
         "EM2860_ELGATO_VIDEO_CAPTURE", "EM2870_COMPRO_VIDEOMATE",
         "EM2820_COMPRO_VIDEOMATE_FORYOU", "EM2820_HAUPPAUGE_WINTV_USB_2",
         "EM2880_HAUPPAUGE_WINTV_HVR_900", "EM2880_HAUPPAUGE_WINTV_HVR_900_R2",
         "EM2883_HAUPPAUGE_WINTV_HVR_950", "EM2883_HAUPPAUGE_WINTV_HVR_850",
         "EM2880_AMD_ATI_TV_WONDER_HD_600", "EM2820_DLINK_USB_TV", "EM2820_PINNACLE_USB_2",
         "EM2882_PINNACLE_HYBRID_PRO_330E", "EM2880_PINNACLE_PCTV_HD_PRO",
         "EM2874_PCTV_HD_MINI_80E", "EM2800_LEADTEK_WINFAST_USBII", "EM2861_PLEXTOR_PX_TV100U",
         "EM2820_IODATA_GVMVP_SZ", "EM2860_GADMEI_UTV330", "EM2870_KWORLD_A340",
         "EM2874_KWORLD_UB435Q_V2", "EM2874_KWORLD_UB435Q_V3", "EM28174_PCTV_290E",
         "EM28174_PCTV_460E", "EM2884_HAUPPAUGE_WINTV_HVR_930C", "EM2884_C3TECH_DIGITAL_DUO",
         "EM2860_HT_VIDBOX_NW03", "EM2860_EASYCAP", "EM2874_MAXMEDIA_UB425_TC",
         "EM2884_PCTV_510E", "EM2884_PCTV_520E", "EM2874_DELOCK_61959",
         "EM2765_SPEEDLINK_VAD_LAPLACE", "EM28178_PCTV_461E", "EM28178_PCTV_292E",
         "EM2861_LEADTEK_VC100", "EM28178_TERRATEC_T2_STICK_HD", "EM28178_PLEX_PX_BCUD"}

-----------------------------------------------------------------------------
\* em28xx_eeprom_hash[] and em28xx_i2c_hash[]: the model and its tuner.
EepromHash ==
  {<<"EM2820_PROLINK_PLAYTV_USB2", "YMEC">>, <<"EM2820_PROLINK_PLAYTV_BOX4_USB2", "YMEC">>,
   <<"EM2880_KWORLD_DVB_310U", "XC2028">>, <<"EM2880_EMPIRE_DUAL_TV", "XC2028">>,
   <<"EM2882_EVGA_INDTUBE", "XC2028">>, <<"EM2881_PINNACLE_HYBRID_PRO", "XC2028">>,
   <<"EM2870_REDDO_DVB_C_USB_BOX", "absent">>, <<"EM2882_DIKOM_DK300", "XC2028">>}
I2cHash ==
  {<<"EM2800_TERRATEC_CINERGY_200", "LG_PAL">>, <<"EM2800_VGEAR_POCKETTV", "LG_PAL">>,
   <<"EM2860_SAA711X_REFERENCE_DESIGN", "absent">>, <<"EM2860_TVP5150_REFERENCE_DESIGN", "absent">>,
   <<"EM2820_GADMEI_TVR200", "LG_PAL">>, <<"EM2861_GADMEI_UTV330PLUS", "TNF">>,
   <<"EM2874_LEADERSHIP_ISDBT", "absent">>}
NoHash == <<"none", "none">>

VARIABLES
  ifc,    \* the interface: what em28xx_usb_probe has seen of its endpoints
  dev28   \* the device: how far it is, its traits, and what the driver thinks it is

ebVars == <<ifc, dev28>>

\* The traits of a device are fixed: its EEPROM, its I2C chips, its sensor.
EbInit ==
  /\ ifc = [seen |-> <<>>, video |-> FALSE, audio |-> FALSE, dvb |-> FALSE, analog |-> {}, digital |-> {}]
  /\ \E e \in EepromHash \union {NoHash}, i \in I2cHash \union {NoHash}, c \in {"none", "MT9V011", "MT9M001"} :
       dev28 = [at |-> "endpoints", eeprom |-> e, i2c |-> i, sensor |-> c, model |-> "none",
                entry |-> Table["EM2800_UNKNOWN"], tuner |-> "none", buses |-> {}, hint |-> NoHash]

\* Mutant: the second bulk endpoint is digital, whatever was there before.
BulkAlwaysDigital(e) == [ifc EXCEPT !.dvb = TRUE, !.digital = @ \union {"bulk"}]

\* Endpoint 0x84 with bulk transfers: analog when endpoint 0x82 came before
\* it, in whatever mode, and else digital.
Bulk84(e) ==
  IF ifc.video THEN [ifc EXCEPT !.analog = @ \union {"bulk"}]
  ELSE [ifc EXCEPT !.dvb = TRUE, !.digital = @ \union {"bulk"}]

\* One endpoint of em28xx_usb_probe.  An isochronous endpoint 0x84 counts
\* when its packets have a size.
Classify(e) ==
  CASE e.ep = "0x82" -> [ifc EXCEPT !.video = TRUE, !.analog = @ \union {e.mode}]
    [] e.ep = "0x83" -> [ifc EXCEPT !.audio = @ \/ e.mode = "isoc"]
    [] e.ep = "0x84" /\ e.mode = "bulk" -> Bulk84(e)
    [] e.ep = "0x84" /\ e.mode = "isoc" ->
         IF e.size > 0 THEN [ifc EXCEPT !.dvb = TRUE, !.digital = @ \union {"isoc"}] ELSE ifc

Endpoints == [ep : {"0x82", "0x83", "0x84"}, mode : {"isoc", "bulk"}, size : {0, 1}]

Endpoint ==
  /\ dev28.at = "endpoints" /\ dev28.eeprom = NoHash /\ dev28.i2c = NoHash /\ dev28.sensor = "none"
  /\ Len(ifc.seen) < SeenMax
  /\ \E e \in Endpoints : ifc' = [Classify(e) EXCEPT !.seen = Append(@, e)]
  /\ UNCHANGED dev28

-----------------------------------------------------------------------------
\* em28xx_set_model.
SetModel(d, m) == [d EXCEPT !.model = m, !.entry = Table[m]]

\* em28xx_usb_probe takes the model of the USB ID, or that of the parameter
\* card; em28xx_init_dev sets it and registers bus 0, and bus 1 when the
\* entry says that the chips are there.
ProbeModel ==
  /\ dev28.at = "endpoints" /\ ifc.seen = <<>>
  /\ \E m \in Ids1 \union Ids2 \union DOMAIN Table :
       dev28' = [SetModel(dev28, m) EXCEPT !.at = "buses", !.buses = {0, Table[m].bus}]
  /\ UNCHANGED ifc

\* em28xx_hint_board: the model and the tuner, NoHash when there is no hint.
\* A webcam keeps its tuner.
HintBoard(d) ==
  IF d.entry.kind = "webcam"
  THEN CASE d.sensor = "MT9V011" -> <<"EM2820_SILVERCREST_WEBCAM", d.tuner>>
         [] d.sensor = "MT9M001" -> <<"EM2750_UNKNOWN", d.tuner>>
         [] OTHER -> <<d.model, d.tuner>>
  ELSE IF d.eeprom # NoHash THEN d.eeprom ELSE d.i2c

Hinted(d) ==
  LET h == HintBoard(d)
  IN  IF h = NoHash THEN d ELSE [SetModel(d, h[1]) EXCEPT !.tuner = h[2], !.hint = h]

\* A webcam without a sensor is none.
DetectSensor(d) ==
  IF d.entry.kind = "webcam" /\ d.sensor = "none" THEN [d EXCEPT !.entry.kind = "analog"] ELSE d

\* The generic models are looked up; all others are set again, which makes
\* a webcam without a sensor a webcam again.
FirstLook(d) ==
  IF d.model \in {"EM2750_UNKNOWN", "EM2820_UNKNOWN", "EM2800_UNKNOWN"} THEN Hinted(d) ELSE SetModel(d, d.model)

\* The tuner of the table takes the place of the one the hint has named.
TableTuner(d) == [d EXCEPT !.tuner = Table[d.model].tuner]

\* Models that share their USB ID with another board.
SecondLook(d) ==
  IF d.model \in {"EM2820_UNKNOWN", "EM2800_UNKNOWN", "EM2880_MSI_DIGIVOX_AD", "EM2882_KWORLD_VS_DVBT"}
  THEN Hinted(d) ELSE d

\* em28xx_card_setup.  On Hauppauge boards the EEPROM names the tuner.
CardSetup ==
  /\ dev28.at = "buses"
  /\ dev28' = [SecondLook(TableTuner(FirstLook(DetectSensor(dev28)))) EXCEPT !.at = "ready"]
  /\ UNCHANGED ifc

\* em28xx_dvb_init: the frontend of the model, on the bus of the entry.
BindDvb ==
  /\ dev28.at = "ready" /\ dev28.entry.kind = "dvb"
  /\ dev28' = [dev28 EXCEPT !.at = IF dev28.model \in DOMAIN BoardInit THEN "dvb" ELSE "unsupported"]
  /\ UNCHANGED ifc

EbNext == Endpoint \/ ProbeModel \/ CardSetup \/ BindDvb
EbSpec == EbInit /\ [][EbNext]_ebVars

-----------------------------------------------------------------------------
\* What the comment in em28xx_usb_probe says of endpoint 0x84: isochronous
\* is digital; bulk is analog when endpoint 0x82 is isochronous.
Seen(ep, mode) == \E k \in DOMAIN ifc.seen : ifc.seen[k].ep = ep /\ ifc.seen[k].mode = mode
Sized84 == \E k \in DOMAIN ifc.seen : ifc.seen[k].ep = "0x84" /\ ifc.seen[k].mode = "isoc" /\ ifc.seen[k].size > 0
Before84(ep) ==
  \A k \in DOMAIN ifc.seen : ifc.seen[k].ep = "0x84" => \E j \in 1 .. k : ifc.seen[j].ep = ep

\* Every device gets the endpoints its interface offers: analog video is on
\* 0x82, or on a bulk 0x84 beside it; DVB on an isochronous 0x84 with a
\* packet size, or on a bulk 0x84 that stands alone.  This needs endpoint
\* 0x82 to be listed first: a bulk 0x84 listed before it counts as digital,
\* where the comment of the code makes it analog.
EndpointsServe ==
  /\ "isoc" \in ifc.digital <=> Sized84
  /\ "isoc" \in ifc.analog <=> Seen("0x82", "isoc")
  /\ ~ifc.video => ("bulk" \in ifc.digital <=> Seen("0x84", "bulk"))
  /\ ifc.video /\ Before84("0x82") =>
       /\ "bulk" \notin ifc.digital
       /\ Seen("0x84", "bulk") => "bulk" \in ifc.analog

\* A board with DVB has a frontend in em28xx_dvb_init, whichever way it was
\* found, and only boards with DVB have one; and the I2C bus its chips are on
\* is registered.  One case is missing: the buses are registered before the
\* hint is taken, and the hint for the Leadership ISDB-T leads from a model
\* on bus 0 to a board on bus 1.
BoardFits ==
  /\ dev28.at # "unsupported"
  /\ dev28.at = "dvb" => DOMAIN BoardInit \ {"other"} = {m \in DOMAIN Table : Table[m].kind = "dvb"}
  /\ dev28.at \in {"ready", "dvb"} =>
       dev28.entry.bus \in dev28.buses \/ dev28.hint[1] = "EM2874_LEADERSHIP_ISDBT"
  /\ dev28.at \in {"ready", "dvb"} /\ dev28.hint # NoHash /\ dev28.model # "EM2800_TERRATEC_CINERGY_200" =>
       dev28.tuner = dev28.hint[2] \/ dev28.entry.kind = "webcam"
=============================================================================
