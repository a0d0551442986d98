SPECIFICATION ReadSpec
CONSTANTS
    UploadedFiles <- TheFiles
    Recognitions <- TheRecognitions
    Transcripts <- TheTranscripts
    MinNative = 12
    MinWords = 30
    SampleRows = 2
    MaxPages = 3
INVARIANT UnreadIsReported
CHECK_DEADLOCK FALSE
