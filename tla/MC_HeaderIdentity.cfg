CONSTANTS
    Headers <- MCHeaders
    NonceInts <- MCNonceInts
    NonceTexts <- MCNonceTexts
    HeaderTexts <- MCHeaderTexts
SPECIFICATION Spec
INVARIANT TypeOK
INVARIANT HashIdentifiesHeader
INVARIANT NonceRoundTrip
INVARIANT NonceTextFaithful
INVARIANT HeaderJSONRoundTrip
