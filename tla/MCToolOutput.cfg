SPECIFICATION OutputSpec
CONSTANTS
  Texts <- MCTexts
  MaxBytes = {0, 4, 7}
  Requests <- MCRequests
INVARIANTS CutsBetweenCharacters NothingDroppedSilently EnvelopeReadsBack
