----------------------------- MODULE Em28xxLife ----------------------------
(***************************************************************************)
(* The life of an em28xx USB device: em28xx-cards.c takes the device and   *)
(* its I2C buses, em28xx-dvb.c attaches the frontend the board has and     *)
(* registers it.  When the DVB extension fails the device stays, without   *)
(* DVB.                                                                    *)
(***************************************************************************)
EXTENDS DriverSteps

dev == Board("dev")
dvb == Board("dvb")
fe0 == Board("fe0")
tuner == Board("tuner")
clientDemod == Board("i2c_client_demod")
clientTuner == Board("i2c_client_tuner")

\* out_free: the transfer buffers and the frontend stay.
OutFree == <<Put(dvb), Clear(dvb)>>
Detach == <<Drop(tuner), Put(fe0)>>   \* dvb_frontend_detach
DetachAndOut == Detach \o OutFree

-----------------------------------------------------------------------------
(* The frontends of the boards.                                            *)

JustFrontend == <<Get(fe0, OutFree)>>

\* em28xx_attach_xc3028; some boards try a second demodulator before it.
Xc3028 == <<Try(fe0, <<>>), Need(fe0, OutFree), Get(tuner, DetachAndOut)>>

\* What attaching the tuner or the LNB supply gives is not looked at.
TunerIgnored == <<Try(fe0, <<Try(tuner, <<>>)>>)>>

\* Without a tuner the frontend is forgotten, or, on some boards, detached.
TunerLeaks == <<Get(fe0, OutFree), Get(tuner, OutFree)>>
TunerDetached == <<Get(fe0, OutFree), Get(tuner, DetachAndOut)>>

\* A client without a driver is not unregistered.
Client(client, undo) ==
  <<Get(client, undo), Must(Board("driver bound"), undo), Must(Board("module"), <<Put(client)>> \o undo)>>
TunerClient == <<Get(fe0, OutFree)>> \o Client(clientTuner, DetachAndOut)
TunerClientSec ==
  TunerClient \o <<Must(Board("a8293"), <<Put(clientTuner)>> \o DetachAndOut)>>

\* The frontend is part of the demodulator's client.
ClientPair == Client(clientDemod, OutFree) \o Client(clientTuner, <<Put(clientDemod)>> \o OutFree)

\* ptx_register_fe is called without an adapter and returns NULL.
PxBcud == OutFree
Unsupported == <<Need(fe0, OutFree)>>

For(models, steps) == [m \in models |-> steps]
f ++ g == [m \in DOMAIN f \union DOMAIN g |-> IF m \in DOMAIN f THEN f[m] ELSE g[m]]

Boards1 ==
  For({"EM2874_LEADERSHIP_ISDBT"}, JustFrontend)
  ++ For({"EM2883_HAUPPAUGE_WINTV_HVR_850", "EM2883_HAUPPAUGE_WINTV_HVR_950", "EM2880_PINNACLE_PCTV_HD_PRO",
          "EM2880_AMD_ATI_TV_WONDER_HD_600", "EM2880_KWORLD_DVB_310U", "EM2880_HAUPPAUGE_WINTV_HVR_900",
          "EM2882_TERRATEC_HYBRID_XS", "EM2880_EMPIRE_DUAL_TV", "EM2880_TERRATEC_HYBRID_XS",
          "EM2880_TERRATEC_HYBRID_XS_FR", "EM2881_PINNACLE_HYBRID_PRO", "EM2882_DIKOM_DK300",
          "EM2882_KWORLD_VS_DVBT", "EM2883_KWORLD_HYBRID_330U", "EM2882_EVGA_INDTUBE",
          "EM2880_HAUPPAUGE_WINTV_HVR_900_R2", "EM2882_PINNACLE_HYBRID_PRO_330E"}, Xc3028)
  ++ For({"EM2870_KWORLD_355U"}, TunerIgnored)
  ++ For({"EM2882_KWORLD_ATSC_315U", "EM2870_REDDO_DVB_C_USB_BOX"}, TunerLeaks)
  ++ For({"EM2870_KWORLD_A340", "EM28174_PCTV_290E"}, TunerDetached)
Boards2 ==
  For({"EM2884_HAUPPAUGE_WINTV_HVR_930C", "EM2884_TERRATEC_H5"}, TunerLeaks)
  ++ For({"EM2884_C3TECH_DIGITAL_DUO", "EM28174_PCTV_460E"}, TunerIgnored)
  ++ For({"EM2874_DELOCK_61959", "EM2874_MAXMEDIA_UB425_TC", "EM2884_PCTV_510E", "EM2884_PCTV_520E"},
         TunerDetached)
Boards3 ==
  For({"EM2884_ELGATO_EYETV_HYBRID_2008", "EM2884_CINERGY_HTC_STICK", "EM2884_TERRATEC_HTC_USB_XS",
       "EM2874_KWORLD_UB435Q_V2", "EM2874_PCTV_HD_MINI_80E"}, TunerLeaks)
  ++ For({"EM2874_KWORLD_UB435Q_V3"}, TunerClient)
  ++ For({"EM28178_PCTV_461E"}, TunerClientSec)
\* Mutant: a board of the table that em28xx_dvb_init does not know.
BoardsWithoutT2 ==
  For({"EM28178_PCTV_292E"}, ClientPair) ++ For({"EM28178_PLEX_PX_BCUD"}, PxBcud) ++ For({"other"}, Unsupported)

Boards4 ==
  For({"EM28178_PCTV_292E", "EM28178_TERRATEC_T2_STICK_HD"}, ClientPair)
  ++ For({"EM28178_PLEX_PX_BCUD"}, PxBcud)
  ++ For({"other"}, Unsupported)
BoardInit == Boards1 ++ Boards2 ++ Boards3 ++ Boards4

-----------------------------------------------------------------------------
(* em28xx_register_dvb, em28xx_unregister_dvb, em28xx_dvb_init, _fini.     *)

\* The labels at the end of em28xx_register_dvb; a failing
\* dvb_register_adapter keeps the frontend, every failure the I2C clients.
FailFrontend0 == <<When(fe0, Detach), Put(Board("adapter"))>> \o OutFree
FailDmx == <<Put(Board("frontend0"))>> \o FailFrontend0
FailDmxdev == <<Put(Board("demux"))>> \o FailDmx
FailFeHw == <<Put(Board("dmxdev"))>> \o FailDmxdev
FailFeMem == <<Put(Board("fe_hw"))>> \o FailFeHw
FailFeConn == <<Put(Board("fe_mem"))>> \o FailFeMem

RegisterDvb ==
  <<Get(Board("adapter"), OutFree), Get(Board("frontend0"), FailFrontend0), Get(Board("demux"), FailDmx),
    Get(Board("dmxdev"), FailDmxdev), Get(Board("fe_hw"), FailFeHw), Get(Board("fe_mem"), FailFeMem),
    Must(Board("connect"), FailFeConn), Set(Board("net"))>>

UnregisterDvb ==
  <<Put(Board("net")), Put(Board("fe_mem")), Put(Board("fe_hw")), Put(Board("dmxdev")), Put(Board("demux")),
    Put(Board("frontend0")), When(fe0, Detach), Put(Board("adapter"))>>

\* Nothing is left to do when the frontend has failed: dvb is NULL.
DvbInit(board) ==
  <<Get(dvb, <<>>), Get(Board("urbs"), OutFree)>>
  \o BoardInit[board]
  \o <<When(dvb, (IF BoardInit[board] = ClientPair THEN <<>> ELSE <<Need(fe0, OutFree)>>)
                 \o RegisterDvb \o <<Set(Board("dvb ref"))>>)>>

DvbFini ==
  <<When(dvb, <<Put(Board("urbs")), Drop(clientTuner), Drop(clientDemod)>> \o UnregisterDvb
              \o <<Put(dvb), Put(Board("dvb ref"))>>)>>

-----------------------------------------------------------------------------
(* em28xx-cards.c *)

ErrNoSlot == <<Put(Board("udev")), Fail>>
Err == <<Put(Board("devused"))>> \o ErrNoSlot
ErrFree == <<Put(Board("alt sizes")), Put(dev)>> \o Err

InitDev(undo) ==
  <<Must(Board("i2c speed"), undo), Get(Board("i2c bus 0"), undo),
    Get(Board("i2c bus 1"), <<Put(Board("i2c bus 0"))>> \o undo)>>

UsbProbe(board) ==
  <<Set(Board("udev")), Get(Board("devused"), ErrNoSlot), Must(Board("class"), Err), Get(dev, Err),
    Get(Board("alt sizes"), <<Put(dev)>> \o Err), Must(Board("endpoints"), ErrFree), Must(Board("speed"), ErrFree)>>
  \o InitDev(ErrFree) \o DvbInit(board)

\* An interface with audio only has no I2C and no DVB.
AudioProbe ==
  <<Set(Board("udev")), Get(Board("devused"), ErrNoSlot), Must(Board("class"), Err), Get(dev, Err),
    Get(Board("alt sizes"), <<Put(dev)>> \o Err), Must(Board("endpoints"), ErrFree), Must(Board("speed"), ErrFree),
    Must(Board("audio"), ErrFree)>>

\* Mutant: the number of the device stays marked.
ReleaseAllButNumber == <<Drop(Board("i2c bus 1")), Drop(Board("i2c bus 0")), Put(Board("udev"))>>

ReleaseResources ==
  <<Drop(Board("i2c bus 1")), Drop(Board("i2c bus 0")), Put(Board("udev")), Put(Board("devused"))>>

Disconnect == DvbFini \o ReleaseResources \o <<Put(Board("alt sizes")), Put(dev)>>
=============================================================================
