-------------------------------- MODULE Ota ---------------------------------
(***************************************************************************)
(* Update over the air (ota.cpp) on a chip without a second slot: a        *)
(* verified image is handed to the boot loader, the version it should be   *)
(* is noted in flash, and after the restart the note is dropped once the   *)
(* WebSocket is up, or after a time, or when another version came up.      *)
(***************************************************************************)
EXTENDS NodeFlash

CONSTANTS Versions,     \* FW_VERSION of the images
          FirstFw       \* the version the node was shipped with

ASSUME OtaAssumption == FirstFw \in Versions /\ None \notin Versions

VARIABLES fw,       \* FW_VERSION of the running image
          staged,   \* the image the boot loader was given, None if none
          armed     \* s_confirm_armed

otaVars == <<fw, staged, armed>>

OtaKeys == {Key("pending", 0)}

OtaInit == fw = FirstFw /\ staged = None /\ armed = FALSE

-----------------------------------------------------------------------------
Pending == Stored("pending", 0)

NoteDropped == <<Put("pending", 0, None)>>

\* A mistake used by the project's mutants only.
NoteKept == <<>>

\* ota_handle, where the download, the hash and the write to flash went well;
\* the restart comes behind the save.  In all other cases nothing changes.
Flashed(v) == /\ v # fw
              /\ staged' = v
              /\ Saves(<<Put("pending", 0, v)>>)
              /\ UNCHANGED <<fw, armed>>

\* The boot loader: a restart carries out what it was given, the loss of
\* power loses it.
BootLoader(powerLost) == /\ fw' = IF staged # None /\ ~powerLost THEN staged ELSE fw
                         /\ staged' = None
                         /\ armed' = FALSE

\* ota_init: the note names this version, or another one and is dropped.
StaleSaves == IF Pending \in {None, fw} THEN <<>> ELSE NoteDropped

OtaLoad == /\ Saves(StaleSaves)
           /\ armed' = (Pending = fw)
           /\ UNCHANGED <<fw, staged>>

\* ota_tick: the WebSocket is up, or the time is over.
Confirm == /\ armed
           /\ armed' = FALSE
           /\ Saves(NoteDropped)
           /\ UNCHANGED <<fw, staged>>

=============================================================================
