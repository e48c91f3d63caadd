SPECIFICATION FairSpec
CONSTANT Payload = {1, 2}
INVARIANTS NeverDeaf PacketsWhole NothingReadTwice
PROPERTIES TransmissionsComplete PollsAgain
