------------------------------ MODULE Tagging ------------------------------
(***************************************************************************)
(* The tagging page of the UI (Vision/Tagging/Tagging.js): an image is     *)
(* read from disk, cropped into the file <image>_cropped, described in a   *)
(* form and submitted; the ground server reads the cropped file when the   *)
(* object's details were posted.  A picture is the image it shows.         *)
(*                                                                         *)
(* Images stands for the list that the page shows; the line that fills it  *)
(* is commented out in this commit (Tagging.js:26).                        *)
(***************************************************************************)
EXTENDS FiniteSets

CONSTANTS
  Images, Fields,
  None,       \* no image; also a field without a value
  Careful     \* whether the operator waits for what he asked for

TaggingAssumption ==
  /\ None \notin Images
  /\ Careful \in BOOLEAN

VARIABLES
  selectedImage,       \* with imagePath and imageName, set together
  croppedImagePath,    \* the image that the cropped file is named after
  croppedAreaPixels,   \* the image that the crop area was chosen on
  displayCropper,
  formValues, annValues,  \* the image that each value describes
  reads,               \* files being read
  crops,               \* crops being made and written
  disk,                \* what each cropped file holds
  submission,          \* the object that is being submitted
  chosen               \* fields chosen since the last click on the list
                       \* (what the operator remembers)

formVars    == <<formValues, annValues, chosen>>
cropVars    == <<croppedAreaPixels, displayCropper>>
taggingVars == <<selectedImage, croppedImagePath, cropVars, formVars, reads,
                 crops, disk, submission>>

NoValues == [f \in Fields |-> None]

\* A crop of the image "of", along the area chosen on the image "area".
Crop(of, area) == [of |-> of, area |-> area]
NoCrop         == Crop(None, None)

NoSubmission ==
  [step |-> "none", image |-> None, file |-> None, content |-> NoCrop,
   description |-> NoValues]

TaggingInit ==
  /\ selectedImage = None /\ croppedImagePath = None
  /\ croppedAreaPixels = None /\ displayCropper = FALSE
  /\ formValues = NoValues /\ annValues = NoValues /\ chosen = {}
  /\ reads = {} /\ crops = {}
  /\ disk = [i \in Images |-> NoCrop]
  /\ submission = NoSubmission

\* A careful operator acts when what he asked for is done.
Attentive == Careful => reads = {} /\ crops = {}

-----------------------------------------------------------------------------

HandleListClick(i) ==
  /\ Attentive
  /\ reads' = reads \cup {i}
  /\ chosen' = {}
  /\ UNCHANGED <<selectedImage, croppedImagePath, cropVars, formValues,
                 annValues, crops, disk, submission>>

\* Mutant of ImageRead: the path of the last crop stays when
\* another image is read.
ImageReadKeepsCrop(i) ==
  /\ i \in reads
  /\ reads' = reads \ {i}
  /\ selectedImage' = i
  /\ UNCHANGED <<croppedImagePath, cropVars, formVars, crops, disk, submission>>

\* The callback of readFile.
ImageRead(i) ==
  /\ i \in reads
  /\ reads' = reads \ {i}
  /\ \/ /\ selectedImage' = i
        /\ croppedImagePath' = None
     \/ UNCHANGED <<selectedImage, croppedImagePath>>  \* it fails
  /\ UNCHANGED <<cropVars, formVars, crops, disk, submission>>

HandleOpen ==
  /\ displayCropper' = ~displayCropper
  /\ UNCHANGED <<selectedImage, croppedImagePath, croppedAreaPixels, formVars,
                 reads, crops, disk, submission>>

\* The cropper reports the area that the operator chose.
OnCropComplete ==
  /\ displayCropper /\ selectedImage # None
  /\ croppedAreaPixels' = selectedImage
  /\ UNCHANGED <<selectedImage, croppedImagePath, displayCropper, formVars,
                 reads, crops, disk, submission>>

\* Without an area the clipper's callback throws, and nothing follows.
HandleCropComplete ==
  /\ Attentive
  /\ displayCropper /\ selectedImage # None /\ croppedAreaPixels # None
  /\ Careful => croppedAreaPixels = selectedImage
  /\ crops' = crops \cup {[crop |-> Crop(selectedImage, croppedAreaPixels),
                           to |-> None]}
  /\ UNCHANGED <<selectedImage, croppedImagePath, cropVars, formVars, reads,
                 disk, submission>>

\* The callback of toDataURL names the file after the image selected now.
Clipped(c) ==
  /\ c.to = None
  /\ crops' = (crops \ {c}) \cup {[c EXCEPT !.to = selectedImage]}
  /\ UNCHANGED <<selectedImage, croppedImagePath, cropVars, formVars, reads,
                 disk, submission>>

\* The callback of writeFile; a failed write is logged.
Written(c) ==
  /\ c.to # None
  /\ crops' = crops \ {c}
  /\ \/ /\ disk' = [disk EXCEPT ![c.to] = c.crop]
        /\ croppedImagePath' = c.to
     \/ UNCHANGED <<disk, croppedImagePath>>
  /\ UNCHANGED <<selectedImage, cropVars, formVars, reads, submission>>

-----------------------------------------------------------------------------
(* The form.                                                               *)

\* handleChange and handleSelectChange; the operator describes what he sees.
HandleChange(f) ==
  /\ Attentive
  /\ selectedImage # None
  /\ formValues' = [formValues EXCEPT ![f] = selectedImage]
  /\ chosen' = chosen \cup {f}
  /\ UNCHANGED <<selectedImage, croppedImagePath, cropVars, annValues, reads,
                 crops, disk, submission>>

HandleSubmit ==
  /\ annValues' = [f \in Fields |-> IF formValues[f] # None THEN formValues[f]
                                    ELSE annValues[f]]
  /\ formValues' = NoValues
  /\ UNCHANGED <<selectedImage, croppedImagePath, cropVars, chosen, reads,
                 crops, disk, submission>>

HandleInteropSubmit ==
  /\ Attentive
  /\ Careful => chosen = Fields /\ formValues = NoValues
  /\ displayCropper /\ selectedImage # None /\ croppedImagePath # None
  /\ submission.step = "none"
  /\ submission' = [step |-> "details", image |-> selectedImage,
                    file |-> croppedImagePath, content |-> NoCrop,
                    description |-> annValues]
  /\ UNCHANGED <<selectedImage, croppedImagePath, cropVars, formVars, reads,
                 crops, disk>>

\* The ground server posts the details, and reads the file when that is done.
ImagePosted ==
  /\ submission.step = "details"
  /\ submission' = [submission EXCEPT !.step = "posted",
                                      !.content = disk[submission.file]]
  /\ UNCHANGED <<selectedImage, croppedImagePath, cropVars, formVars, reads,
                 crops, disk>>

SubmissionEnds ==
  /\ submission.step # "none"
  /\ submission' = NoSubmission
  /\ UNCHANGED <<selectedImage, croppedImagePath, cropVars, formVars, reads,
                 crops, disk>>

TaggingNext ==
  \/ \E i \in Images : HandleListClick(i) \/ ImageRead(i)
  \/ HandleOpen \/ OnCropComplete \/ HandleCropComplete
  \/ \E c \in crops : Clipped(c) \/ Written(c)
  \/ \E f \in Fields : HandleChange(f)
  \/ HandleSubmit \/ HandleInteropSubmit \/ ImagePosted \/ SubmissionEnds

TaggingSpec == TaggingInit /\ [][TaggingNext]_taggingVars

-----------------------------------------------------------------------------

\* What the page can hold; what is submitted has a file.
TaggingTypeOK ==
  LET pics == Images \cup {None}
  IN  /\ {selectedImage, croppedImagePath, croppedAreaPixels} \subseteq pics
      /\ displayCropper \in BOOLEAN
      /\ {formValues, annValues} \subseteq [Fields -> pics]
      /\ reads \subseteq Images /\ chosen \subseteq Fields
      /\ crops \subseteq [crop : [of : Images, area : Images], to : pics]
      /\ disk \in [Images -> [of : pics, area : pics]]
      /\ submission.step \in {"none", "details", "posted"}
      /\ submission.step # "none" => submission.file \in Images

\* A careful operator's object goes out with the picture of the image that
\* was selected when he submitted it: the file is named after that image and
\* holds a crop of it, along the area that he chose on it.
SubmitsTheSelected ==
  submission.step = "posted"
    => /\ submission.file = submission.image
       /\ submission.content = Crop(submission.image, submission.image)

\* A careful operator's object goes out with the description of that image,
\* although saved values outlive the image that they describe.
SubmitsItsDescription ==
  submission.step # "none" =>
    \A f \in Fields : submission.description[f] = submission.image

=============================================================================
