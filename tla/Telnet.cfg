\* Three chunks, and a reply of a goroutine next to those of serve.
CONSTANTS
    Chunks <- MCChunks
    MaxChunks = 3
    Jobs = {j1}
    MaxLines = 2
    Nobody = Nobody
SPECIFICATION Spec
INVARIANTS TypeOK Decoded Answered RepliesWhole
