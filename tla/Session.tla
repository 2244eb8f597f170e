---------------------------- MODULE Session ----------------------------
(***************************************************************************)
(* One run of the program, nrfdfu.c and libnrfdfu.c alike: it reads the    *)
(* manifest of the package (manifest.c), and for each kind of image that   *)
(* it finds there two files of the package (zip.c), which it sends with    *)
(* dfu().                                                                  *)
(*                                                                         *)
(* The manifest is searched as text, never parsed.  Here the text is the   *)
(* sequence of its quoted strings, a string is [text, has]: what it is     *)
(* when taken as a file name, and which of the words that are searched     *)
(* for occur in it.                                                        *)
(***************************************************************************)
EXTENDS Naturals, Sequences, SequencesExt

CONSTANT Packages  \* [manifest, files, images]: images is what it was made from

VARIABLES
  package,
  at,       \* the image main() is about to send
  sent,     \* what was sent: [image, dat, bin]
  status    \* of the process, "none" while it runs

vars == <<package, at, sent, status>>

Images == <<"softdevice_bootloader", "bootloader", "application">>

\* strstr: where the first string with the word is, or 0.
strstr(manifest, word) == SelectInSeq(manifest, LAMBDA string : word \in string.has)

(* The string behind the first one with the key, wherever in the manifest  *)
(* the image is; without it, what was in the buffer before.                *)
fake_parser(out, manifest, image, key) ==
  IF strstr(manifest, image) = 0 \/ strstr(manifest, key) = 0
  THEN out ELSE manifest[strstr(manifest, key) + 1].text

\* One buffer serves both searches.
parse_value(manifest, image) ==
  LET dat == fake_parser("", manifest, image, "dat_file") IN
  [has |-> strstr(manifest, image) # 0,
   dat |-> dat,
   bin |-> fake_parser(dat, manifest, image, "bin_file")]

parse_manifest(manifest) == [i \in DOMAIN Images |-> parse_value(manifest, Images[i])]

Init ==
  /\ package \in Packages
  /\ at = 1 /\ sent = <<>> /\ status = "none"

Exit(code) == status' = code

\* The end of one image's part of main(), and of main() with the last one.
Onward ==
  /\ at' = at + 1
  /\ IF at = Len(Images) THEN Exit("SUCCESS") ELSE UNCHANGED status

\* A file that is not in the package ends the program, whatever was sent before.
read_file_from_zip(name) == name \in package.files

\* dfu() succeeds, or fails and ends the program.
SendImage(m) ==
  IF read_file_from_zip(m.dat) /\ read_file_from_zip(m.bin)
  THEN \/ sent' = Append(sent, [image |-> Images[at], dat |-> m.dat, bin |-> m.bin]) /\ Onward
       \/ Exit("FAILURE") /\ UNCHANGED <<at, sent>>
  ELSE Exit("FAILURE") /\ UNCHANGED <<at, sent>>

main ==
  /\ status = "none"
  /\ LET m == parse_manifest(package.manifest)[at] IN
     \/ m.has /\ SendImage(m)
     \/ ~m.has /\ Onward /\ UNCHANGED sent
  /\ UNCHANGED package

Next == main

Spec == Init /\ [][Next]_vars
---------------------------------------------------------------------------
(* What is sent is what the package was made from: each image at most once  *)
(* and with its own two files, and all of them when the program succeeds.  It *)
(* is what the program says of itself: "bytes init_data, bytes SD+bootloader",*)
(* "bytes bootloader", "bytes firmware" (nrfdfu.c 75-107; manifest.c 12-33).  *)
SentAsPackaged ==
  /\ \A i \in DOMAIN sent : sent[i] \in package.images
  /\ \A i, j \in DOMAIN sent : i # j => sent[i].image # sent[j].image
  /\ status = "SUCCESS" => \A image \in package.images : image \in {sent[i] : i \in DOMAIN sent}
=============================================================================
