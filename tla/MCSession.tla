---------------------------- MODULE MCSession ----------------------------
(* Packages for Session, with manifests as nrfutil writes them: the images *)
(* in the order of the alphabet, the binary before the init packet.        *)
EXTENDS Session, TLC

String(text, has) == [text |-> text, has |-> has]

Section(image, words) ==
  <<String(image.image, words), String("", {"bin_file"}), String(image.bin, {}),
    String("", {"dat_file"}), String(image.dat, {})>>

Application == [image |-> "application", dat |-> "main.dat", bin |-> "main.bin"]
SDBootloader == [image |-> "softdevice_bootloader", dat |-> "sd_bl.dat", bin |-> "sd_bl.bin"]

ApplicationSection == Section(Application, {"application"})
SDBootloaderSection == Section(SDBootloader, {"softdevice_bootloader", "bootloader"})

Package(manifest, images) ==
  [manifest |-> manifest, images |-> images, files |-> {i.dat : i \in images} \cup {i.bin : i \in images}]

\* test.zip of the repository has an application; the other has all that an update can have.
MCPackages ==
  {Package(ApplicationSection, {Application}),
   Package(ApplicationSection \o SDBootloaderSection, {Application, SDBootloader})}
=============================================================================
