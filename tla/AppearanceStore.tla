-------------------------- MODULE AppearanceStore --------------------------
(***************************************************************************)
(* The appearance of the desktop (desktop/internal/services/appearance.go):*)
(* a document and the picture it names, which Save writes one after the    *)
(* other, each by atomicWriteFile.                                         *)
(*                                                                         *)
(* A picture is its content, which is also its SHA-256; it is stored under *)
(* the name of its type, so that two pictures of one type share a file.    *)
(***************************************************************************)
CONSTANTS PictureTypes, Contents

Absent == "absent"

ASSUME PicturesAssumption == Absent \notin Contents

VARIABLES
    look,       \* appearance.json: the picture it names, or none
    pictures,   \* the picture files
    painting,   \* where Save stands
    chosen,     \* the document that Save is to write
    torn        \* history: a picture was replaced without its document

appearanceVars == <<look, pictures, painting, chosen, torn>>

NoPicture == [type |-> Absent, sha |-> Absent]

Looks == {NoPicture} \cup [type : PictureTypes, sha : Contents]

AppearanceTypeOK ==
    /\ look \in Looks
    /\ pictures \in [PictureTypes -> Contents \cup {Absent}]
    /\ painting \in {"no", "picture", "document", "remove"}
    /\ chosen \in Looks
    /\ torn \in BOOLEAN

AppearanceInit ==
    /\ look = NoPicture
    /\ pictures = [t \in PictureTypes |-> Absent]
    /\ painting = "no"
    /\ chosen = NoPicture
    /\ torn = FALSE

-----------------------------------------------------------------------------

Paint(place, document) ==
    painting' = place /\ chosen' = document /\ UNCHANGED <<look, pictures, torn>>

\* Save with a picture; one that the document names already is not written.
SavePicture(type, sha) ==
    /\ painting = "no"
    /\ LET document == [type |-> type, sha |-> sha]
       IN Paint(IF look = document THEN "document" ELSE "picture", document)

\* Save without a new picture keeps the one there is, if there is one.
SaveOther ==
    /\ painting = "no"
    /\ Paint("document", look)

\* Save of another background.
SaveSystem ==
    /\ painting = "no"
    /\ Paint("document", NoPicture)

WritePicture ==
    /\ painting = "picture"
    /\ pictures' = [pictures EXCEPT ![chosen.type] = chosen.sha]
    /\ painting' = "document"
    /\ UNCHANGED <<look, chosen, torn>>

\* A fault: the old picture goes before the new document is there.
WriteDocumentLate ==
    /\ painting = "document"
    /\ IF look # NoPicture /\ chosen = NoPicture
         THEN /\ pictures' = [pictures EXCEPT ![look.type] = Absent]
              /\ painting' = "remove"
              /\ UNCHANGED <<look, chosen, torn>>
         ELSE /\ look' = chosen
              /\ painting' = "no"
              /\ chosen' = NoPicture
              /\ UNCHANGED <<pictures, torn>>

\* A picture that the document no longer names is removed.
WriteDocument ==
    /\ painting = "document"
    /\ look' = chosen
    /\ IF look # NoPicture /\ chosen = NoPicture
         THEN painting' = "remove" /\ chosen' = look
         ELSE painting' = "no" /\ chosen' = NoPicture
    /\ UNCHANGED <<pictures, torn>>

\* The error is ignored.
RemovePicture ==
    /\ painting = "remove"
    /\ pictures' \in {pictures, [pictures EXCEPT ![chosen.type] = Absent]}
    /\ painting' = "no"
    /\ chosen' = NoPicture
    /\ UNCHANGED <<look, torn>>

\* A file cannot be written, or the program dies, between the picture and the
\* document that names it.
PaintingEnds ==
    /\ painting' = "no"
    /\ chosen' = NoPicture
    /\ torn' = \/ torn
               \/ painting = "document" /\ chosen # look /\ chosen.type = look.type
    /\ UNCHANGED <<look, pictures>>

PaintingFails == painting \in {"picture", "document"} /\ PaintingEnds

AppearanceNext ==
    \/ \E type \in PictureTypes, sha \in Contents : SavePicture(type, sha)
    \/ SaveOther \/ SaveSystem
    \/ WritePicture \/ WriteDocument \/ RemovePicture \/ PaintingFails

AppearanceRestart == PaintingEnds

-----------------------------------------------------------------------------
(* Properties                                                              *)

\* The picture that the document names exists, wherever a Save has ended, and
\* it is the one whose digest the document holds, unless a Save of another
\* picture of the same type was cut short.
BackgroundExists ==
    look # NoPicture =>
        /\ pictures[look.type] # Absent
        /\ painting = "no" /\ ~torn => pictures[look.type] = look.sha

=============================================================================
