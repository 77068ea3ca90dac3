-------------------------- MODULE MC_RecordScreen --------------------------
(* RecordScreen for TLC: the main display in its natural orientation and *)
(* rotated once (DISPLAY_ORIENTATION_0 / _90), and two display sizes:    *)
(* a portrait phone, for which a failing prepareEncoder is retried at     *)
(* 720p, and a 1280x800 panel, for which it is not.                       *)
EXTENDS RecordScreen

MCOrientations == {0, 1}
MCMainSizes == {<<1080, 1920>>, <<1280, 800>>}
\* Display sizes of real devices, at orientation 0.
SweepDisplays == {<<1080, 1920>>, <<720, 1600>>, <<1440, 3200>>, <<1080, 2340>>,
                  <<1200, 2000>>, <<480, 800>>, <<1280, 800>>, <<768, 1366>>,
                  <<1440, 2560>>}

\* The content rect setDisplayProjection computes for display d, rotated
\* or not, in video v, measured against the display as the device shows it.
ContentKeepsAspect(d, rot, v) ==
    ContentFits(setDisplayProjection(d, rot, v), IF rot THEN <<d[2], d[1]>> ELSE d, v)

\* Every video size recordScreen can pair with a display: its own size at
\* either orientation (the orientation may change after the video was
\* sized) and the 720p fallback either way round.
PairedVideos(d) == {d, <<d[2], d[1]>>, <<1280, 720>>, <<720, 1280>>}

ProjectionSweep ==
    \A d \in SweepDisplays : \A rot \in BOOLEAN, v \in PairedVideos(d) :
        ContentKeepsAspect(d, rot, v)

\* The same check for the displays and orientations of this model, by
\* display, orientation and video size.
ModelProjections ==
    [d \in MCMainSizes |-> [o \in MCOrientations |->
        [v \in PairedVideos(d) |-> ContentKeepsAspect(d, isDeviceRotated(o), v)]]]

\* setDisplayProjection, from prepareVirtualDisplay and again from
\* runEncoder when the orientation changes, maps the main display into the
\* video without cropping or distorting it: the content rect lies inside
\* the frame, is centred, fills one side and keeps the displayed aspect to
\* a pixel, in the binary32 arithmetic the code does.  Checked for the
\* projection in force in every state and for real display sizes.
ProjectionFitsVideo ==
    /\ ProjectionSweep
    /\ proj # -1 => /\ gVideo \in PairedVideos(dpySize)
                    /\ ModelProjections[dpySize][proj][gVideo]
====
